---- MODULE Spec2Model ----
(***************************************************************************)
(* Model of go-term's session registry (controllers.SSHController) and of   *)
(* services.TerminalSession.Close.                                          *)
(*                                                                          *)
(* Registry: every goroutine that calls into the controller is a task.  A   *)
(* task is idle or inside one controller method; each action is one step of *)
(* that method: a critical section of sc.mutex / sc.locksMutex (atomic,     *)
(* because the lock is held), or one blocking transport call made with no   *)
(* shared lock held.  GetServerConnectionStatus is the one method that      *)
(* keeps sc.mutex (read mode) across transport calls, so the mutex's        *)
(* readers are state.                                                       *)
(***************************************************************************)
EXTENDS Integers, FiniteSets, Sequences, TLC

\* ------------------------------------------------------------------ bounds
NumHosts == 2
NumTasks == 2
MaxConns == 3
MaxSessions == 2
MaxSftps == 2
MaxCalls == 4
\* the budget of calls of a run of the session lifecycle alone
MaxSessionCalls == 5

\* calls made in a run of the registry under a fair scheduler
MaxLockCalls == 3
NumClosers == 3
\* the session's queues and scrollback, scaled down: OutputChan has capacity
\* 200, ErrorChan 100, the read buffer 4096 bytes, the scrollback 8192 bytes
OutputCap == 2
ErrorCap == 1
ReadBufSize == 2
ScrollbackMax == 3
MaxReads == 4
\* the batch run, scaled down: the limiter admits 10 workers
MaxConcurrent == 2
NumTargets == 3
\* the scripts handed to the executor: at most MaxLines lines
MaxLines == 3

Hosts == 1..NumHosts
Tasks == 1..NumTasks
Closers == 1..NumClosers
ConnIds == 1..MaxConns
SessIds == 1..MaxSessions
SftpIds == 1..MaxSftps
\* a lock object is referenced by the lock map or by a task: never more needed
LockIds == 1..(NumHosts + NumTasks)
Streams == {"stdout", "stderr"}
Targets == 1..NumTargets

VARIABLES
    connections,        \* sc.connections: host -> connection id, 0 = no entry
    sftpClients,        \* sc.sftpClients: host -> sftp client id, 0 = no entry
    terminalSessions,   \* sc.terminalSessions: host -> session id, 0 = no entry
    perServerLocks,     \* sc.perServerLocks: host -> lock id, 0 = no entry
    lockOwner,          \* the task that holds each *sync.Mutex of perServerLocks, 0 = free
    mutexReaders,       \* tasks holding sc.mutex.RLock across steps
    conn,               \* SSHConnection objects: [host, client, closes, probes]
    sess,               \* TerminalSession objects: [host, state]
    sftp,               \* sftp.Client objects: [host, state]
    task,               \* per task: position, arguments and locals of the running method
    calls,              \* how many controller calls have been made so far
    \* ---- one TerminalSession and the callers of its Close
    closer,             \* per caller of Close: position and the err it returns
    once,               \* ts.closeOnce: "new", "running" (f is executing) or "done"
    closeChan,          \* ts.closeChan has been closed: the pumps are told to stop
    ctx,                \* the timeout context of Close: "none", "armed", "expired", "cancelled"
    stdinClose,         \* the call ts.Stdin.Close(): "none", "calling" or "done"
    sessionClose,       \* the call ts.Session.Close(): "none", "calling" or "done"
    stdinCloses,        \* how many times ts.Stdin.Close() was called
    sessionCloses,      \* how many times ts.Session.Close() was called
    errCh,              \* errCh (capacity 2): results of the two close goroutines
    received,           \* i of the wait loop: results received so far
    \* ---- the pumps, queues and scrollback of one TerminalSession
    outQ,               \* ts.OutputChan ("stdout") and ts.ErrorChan ("stderr"): queued chunks
    pump,               \* per readLoop goroutine: position, the chunk in hand, err of Read
    readLog,            \* history: the chunks each pump has read, in read order
    taken,              \* history: the chunks consumers received from each queue, in order
    lost,               \* history: chunks a pump read and returned without appending
    outputBuffer,       \* ts.outputBuffer
    logged,             \* history: the bytes appended to outputBuffer since the last clear
    got,                \* what the last call of ReadOutput / ReadTerminalOutput returned
    \* ---- one call of ExecuteBatchScript
    batch,              \* the caller: position, the script, the loop index, the error returned
    worker,             \* per target host: the worker goroutine's position and its execution
    results,            \* the results map: host -> its record; Status "none" = no entry
    semaphore,          \* how many slots of the semaphore channel are taken
    wg,                 \* the WaitGroup's counter
    \* ---- one run of the EnhancedScriptExecutor on one host
    run,                \* the call: position, its input, its locals, what it returns
    hostCalls,          \* history: the calls made on the CommandExecutor, in order
    \* ---- one call of GetAutoCompleteSuggestions on a registered session
    ac,                 \* the call: position, partialCommand, output, what it returns
    acLog               \* history: what the call did to the session, in order

regVars == << connections, sftpClients, terminalSessions, perServerLocks, lockOwner,
              mutexReaders, conn, sess, sftp, task, calls >>

closeVars == << closer, once, closeChan, ctx, stdinClose, sessionClose,
                stdinCloses, sessionCloses, errCh, received >>

pumpVars == << outQ, pump, readLog, taken, lost, outputBuffer, logged >>

batchVars == << batch, worker, results, semaphore, wg >>

execVars == << run, hostCalls >>

autoVars == << ac, acLog >>

readVars == << got >>

\* the state that belongs to components other than the registry
nonRegVars == << closeVars, pumpVars, batchVars, execVars, autoVars, readVars >>

\* the state that belongs to components other than Close
nonCloseVars == << regVars, pumpVars, batchVars, execVars, autoVars, readVars >>

\* the state that belongs to components other than the pumps
nonPumpVars == << regVars, closeVars, batchVars, execVars, autoVars, readVars >>

\* the state that belongs to components other than the batch run
nonBatchVars == << regVars, closeVars, pumpVars, execVars, autoVars, readVars >>

\* the state that belongs to components other than the script executor
nonExecVars == << regVars, closeVars, pumpVars, batchVars, autoVars, readVars >>

\* the state that belongs to components other than the auto-complete call
nonAutoVars == << regVars, closeVars, pumpVars, batchVars, execVars, readVars >>

Blank == [pc |-> "idle", op |-> "none", arg |-> 0, conn |-> 0, sess |-> 0, sftp |-> 0,
          lock |-> 0, err |-> "none", res |-> "none", visited |-> {}, up |-> {},
          ovl |-> {}, clean |-> TRUE]

\* NewSSHController: empty maps, no locks, nothing created yet
InitRegistry ==
    /\ connections = [h \in Hosts |-> 0]
    /\ sftpClients = [h \in Hosts |-> 0]
    /\ terminalSessions = [h \in Hosts |-> 0]
    /\ perServerLocks = [h \in Hosts |-> 0]
    /\ lockOwner = [l \in LockIds |-> 0]
    /\ mutexReaders = {}
    /\ conn = [c \in ConnIds |-> [host |-> 0, client |-> "none", closes |-> 0,
                                probes |-> 0]]
    /\ sess = [s \in SessIds |-> [host |-> 0, state |-> "none"]]
    /\ sftp = [f \in SftpIds |-> [host |-> 0, state |-> "none"]]
    /\ task = [t \in Tasks |-> Blank]
    /\ calls = 0

\* CreateTerminalSession's result: a session nobody has closed yet
InitClose ==
    /\ closer = [c \in Closers |-> [pc |-> "idle", err |-> "nil"]]
    /\ once = "new"
    /\ closeChan = FALSE
    /\ ctx = "none"
    /\ stdinClose = "none"
    /\ sessionClose = "none"
    /\ stdinCloses = 0
    /\ sessionCloses = 0
    /\ errCh = << >>
    /\ received = 0

\* a pump with no chunk in hand
NoChunk == [seq |-> 0, n |-> 0]

\* no call of ReadOutput / ReadTerminalOutput has returned
NoRead == [out |-> NoChunk, err |-> "none"]

\* SSHConnection.CreateTerminalSession: empty queues and scrollback, both
\* pumps at the top of their loop
InitPump ==
    /\ outQ = [s \in Streams |-> << >>]
    /\ pump = [s \in Streams |-> [pc |-> "select", data |-> NoChunk, eof |-> FALSE]]
    /\ readLog = [s \in Streams |-> << >>]
    /\ taken = [s \in Streams |-> << >>]
    /\ lost = [s \in Streams |-> 0]
    /\ outputBuffer = << >>
    /\ logged = << >>
    /\ got = NoRead

\* ExecuteBatchScript has not been called: no script, no worker, an empty
\* results map, a free semaphore
NoScript == [type |-> "none", content |-> [transfers |-> FALSE, shell |-> FALSE]]
NoCond == [connected |-> TRUE, transferOk |-> TRUE, shellOk |-> TRUE]
\* a host without an entry in the results map; an entry is a ScriptExecution:
\* its Status, the statuses of its CommandOutputs, its Error text
NoRecord == [status |-> "none", outs |-> << >>, error |-> ""]

InitBatch ==
    /\ batch = [pc |-> "start", script |-> NoScript, next |-> 1, err |-> "none"]
    /\ worker = [h \in Targets |-> [pc |-> "none", cond |-> NoCond, execErr |-> FALSE,
                                     execution |-> NoRecord]]
    /\ results = [h \in Targets |-> NoRecord]
    /\ semaphore = 0
    /\ wg = 0

\* NewEnhancedScriptExecutor: no script has been handed to the executor yet
NoRun == [pc |-> "idle", mode |-> "none", text |-> << >>, raw |-> << >>,
          commands |-> << >>, fileOps |-> << >>, shellCommands |-> << >>,
          handled |-> << >>, outputs |-> << >>, err |-> FALSE]

InitExec ==
    /\ run = NoRun
    /\ hostCalls = << >>

\* GetAutoCompleteSuggestions has not been called
InitAuto ==
    /\ ac = [pc |-> "idle", partialCommand |-> << >>, output |-> << >>,
             first |-> << >>, suggestions |-> << >>, err |-> FALSE]
    /\ acLog = << >>

\* ------------------------------------------------------------------ helpers
Min(S) == CHOOSE x \in S : \A y \in S : x <= y

FreeConns == {c \in ConnIds : conn[c].client = "none"}
FreeSess == {s \in SessIds : sess[s].state = "none"}
FreeSftps == {f \in SftpIds : sftp[f].state = "none"}
\* lock objects nobody references any more are garbage; their ids are reused
FreeLocks == {l \in LockIds : /\ \A h \in Hosts : perServerLocks[h] # l
                              /\ \A t \in Tasks : task[t].lock # l}

\* sc.mutex.Lock() can be taken: no reader holds the RWMutex (writers never
\* keep it across a step)
MutexFree == mutexReaders = {}

\* an idle task makes its next call, while the run's budget of calls lasts
Call(t) ==
    /\ task[t].pc = "idle"
    /\ calls < MaxCalls
    /\ calls' = calls + 1
    /\ UNCHANGED nonRegVars

\* a task is busy with host h: inside a method called for h, or inside the
\* status check, which visits every host
BusyOn(u, h, o) ==
    /\ task[u].pc # "idle"
    /\ (task[u].arg = h \/ task[u].op = "status" \/ o = "status")

\* Task t enters method o for host h: its locals are fresh.  ovl and clean are
\* history: which other tasks' calls on the same host overlapped this call, and
\* whether all of them were calls of the same method.
Started(t, o, h) ==
    LET others == {u \in Tasks \ {t} : BusyOn(u, h, o)} IN
    [u \in Tasks |->
        IF u = t
        THEN [Blank EXCEPT !.op = o, !.arg = h, !.ovl = others,
                           !.clean = \A v \in others : task[v].op = o]
        ELSE IF u \in others
        THEN [task[u] EXCEPT !.ovl = @ \cup {t}, !.clean = @ /\ (task[u].op = o)]
        ELSE task[u]]

\* the method returns r: its locals die.  What the call created (the dialed
\* connection, the created session or sftp client) is kept as history.
Returned(tk, t, r) ==
    [tk EXCEPT ![t] = [Blank EXCEPT !.op = tk[t].op, !.arg = tk[t].arg, !.res = r,
                                    !.ovl = tk[t].ovl, !.clean = tk[t].clean,
                                    !.conn = IF tk[t].op = "connect" THEN tk[t].conn ELSE 0,
                                    !.sess = IF tk[t].op \in {"openSession", "createSession"}
                                             THEN tk[t].sess ELSE 0,
                                    !.sftp = IF tk[t].op = "openSftp" THEN tk[t].sftp ELSE 0]]

\* defer serverLock.Unlock(): the per-server mutex the task holds is released
Unlocked(t) ==
    [l \in LockIds |-> IF lockOwner[l] = t THEN 0 ELSE lockOwner[l]]

\* the transport of connection c has not been closed
TransportOpen(c) == conn[c].client # "none" /\ conn[c].closes = 0

\* ------------------------------------------------------- ConnectToServer
\* sc.mutex.RLock(); _, already := sc.connections[serverID]; RUnlock()
ConnectCheck(t, h) ==
    /\ Call(t)
    /\ LET tk == Started(t, "connect", h) IN
       task' = IF connections[h] # 0
               THEN Returned(tk, t, "already")
               ELSE [tk EXCEPT ![t].pc = "c_dial"]
    /\ UNCHANGED << connections, sftpClients, terminalSessions, perServerLocks,
                    lockOwner, mutexReaders, conn, sess, sftp >>

\* connection.Connect(...): the dial, with no lock held; it may fail
ConnectDial(t) ==
    /\ task[t].pc = "c_dial"
    /\ \E ok \in BOOLEAN :
         IF ok /\ FreeConns # {}
         THEN LET c == Min(FreeConns) IN
              /\ conn' = [conn EXCEPT ![c] = [host |-> task[t].arg, client |-> "open",
                                              closes |-> 0, probes |-> 0]]
              /\ task' = [task EXCEPT ![t].pc = "c_publish", ![t].conn = c]
         ELSE /\ task' = Returned(task, t, "error")
              /\ UNCHANGED conn
    /\ UNCHANGED << connections, sftpClients, terminalSessions, perServerLocks,
                    lockOwner, mutexReaders, sess, sftp >>
    /\ UNCHANGED << calls, nonRegVars >>

\* ConnectPublish without the double-check: the new connection always goes in
ConnectPublishNoCheck(t) ==
    /\ task[t].pc = "c_publish"
    /\ MutexFree
    /\ connections' = [connections EXCEPT ![task[t].arg] = task[t].conn]
    /\ task' = Returned(task, t, "connected")
    /\ UNCHANGED << sftpClients, terminalSessions, perServerLocks, lockOwner,
                    mutexReaders, conn, sess, sftp >>
    /\ UNCHANGED << calls, nonRegVars >>

\* sc.mutex.Lock(); double-check; sc.connections[serverID] = connection
ConnectPublish(t) ==
    /\ task[t].pc = "c_publish"
    /\ MutexFree
    /\ LET h == task[t].arg
           existing == connections[h] IN
       IF existing # 0 /\ conn[existing].client # "nil"
       THEN /\ task' = [task EXCEPT ![t].pc = "c_discard"]
            /\ UNCHANGED connections
       ELSE /\ connections' = [connections EXCEPT ![h] = task[t].conn]
            /\ task' = Returned(task, t, "connected")
    /\ UNCHANGED << sftpClients, terminalSessions, perServerLocks, lockOwner,
                    mutexReaders, conn, sess, sftp >>
    /\ UNCHANGED << calls, nonRegVars >>

\* SSHConnection.Close on a connection only this task knows
ConnClose(c) ==
    IF conn[c].client = "open"
    THEN [conn EXCEPT ![c].closes = @ + 1, ![c].client = "nil", ![c].probes = 0]
    ELSE conn

\* the loser of the double-check closes the connection it dialed
ConnectDiscard(t) ==
    /\ task[t].pc = "c_discard"
    /\ conn' = ConnClose(task[t].conn)
    /\ task' = Returned(task, t, "already")
    /\ UNCHANGED << connections, sftpClients, terminalSessions, perServerLocks,
                    lockOwner, mutexReaders, sess, sftp >>
    /\ UNCHANGED << calls, nonRegVars >>


\* --------------------------------------------------- DisconnectFromServer
\* step 1: read the host's three entries under sc.mutex.RLock()
DisconnectSnapshot(t, h) ==
    /\ Call(t)
    /\ LET tk == Started(t, "disconnect", h) IN
       task' = [tk EXCEPT ![t].pc = "d_sess", ![t].sess = terminalSessions[h],
                          ![t].conn = connections[h], ![t].sftp = sftpClients[h]]
    /\ UNCHANGED << connections, sftpClients, terminalSessions, perServerLocks,
                    lockOwner, mutexReaders, conn, sess, sftp >>

\* What waiting for TerminalSession.Close() under a timeout can yield.  Close
\* runs its body once (sync.Once): only the first call can report an error;
\* the wait can time out whenever the body has not returned.
CloseOutcomes(s) ==
    IF sess[s].state = "open" THEN {"none", "error", "timeout"} ELSE {"none"}

\* step 2a: closeSessionWithTimeout(ctx, session), no lock held
DisconnectCloseSession(t) ==
    /\ task[t].pc = "d_sess"
    /\ LET s == task[t].sess IN
       IF s = 0
       THEN /\ task' = [task EXCEPT ![t].pc = "d_sftp"]
            /\ UNCHANGED sess
       ELSE \E out \in CloseOutcomes(s) :
              /\ sess' = [sess EXCEPT ![s].state = "closed"]
              /\ task' = [task EXCEPT ![t].pc = "d_sftp", ![t].err = out]
    /\ UNCHANGED << connections, sftpClients, terminalSessions, perServerLocks,
                    lockOwner, mutexReaders, conn, sftp >>
    /\ UNCHANGED << calls, nonRegVars >>

\* step 2b: sftpClient.Close(), no lock held, no timeout; an error is only logged
DisconnectCloseSftp(t) ==
    /\ task[t].pc = "d_sftp"
    /\ LET f == task[t].sftp IN
       sftp' = IF f = 0 THEN sftp ELSE [sftp EXCEPT ![f].state = "closed"]
    /\ task' = [task EXCEPT ![t].pc = "d_conn"]
    /\ UNCHANGED << connections, sftpClients, terminalSessions, perServerLocks,
                    lockOwner, mutexReaders, conn, sess >>
    /\ UNCHANGED << calls, nonRegVars >>

\* step 2c: conn.Close() on the shared connection object, no lock held:
\* if s.Client != nil { s.Client.Close() ...
DisconnectCloseConn(t) ==
    /\ task[t].pc = "d_conn"
    /\ LET c == task[t].conn IN
       IF c # 0 /\ conn[c].client = "open"
       THEN /\ conn' = [conn EXCEPT ![c].closes = @ + 1, ![c].probes = 0]
            /\ task' = [task EXCEPT ![t].pc = "d_nil"]
       ELSE /\ task' = [task EXCEPT ![t].pc = "d_remove"]
            /\ UNCHANGED conn
    /\ UNCHANGED << connections, sftpClients, terminalSessions, perServerLocks,
                    lockOwner, mutexReaders, sess, sftp >>
    /\ UNCHANGED << calls, nonRegVars >>

\* ... s.Client = nil }
DisconnectNilClient(t) ==
    /\ task[t].pc = "d_nil"
    /\ conn' = [conn EXCEPT ![task[t].conn].client = "nil"]
    /\ task' = [task EXCEPT ![t].pc = "d_remove"]
    /\ UNCHANGED << connections, sftpClients, terminalSessions, perServerLocks,
                    lockOwner, mutexReaders, sess, sftp >>
    /\ UNCHANGED << calls, nonRegVars >>

\* DisconnectRemove that gives up the removal once a close has failed
DisconnectRemoveUnlessError(t) ==
    /\ task[t].pc = "d_remove"
    /\ MutexFree
    /\ LET h == task[t].arg
           go == task[t].err = "none" IN
       /\ terminalSessions' = IF go /\ task[t].sess # 0
                              THEN [terminalSessions EXCEPT ![h] = 0] ELSE terminalSessions
       /\ sftpClients' = IF go /\ task[t].sftp # 0
                         THEN [sftpClients EXCEPT ![h] = 0] ELSE sftpClients
       /\ connections' = IF go /\ task[t].conn # 0
                         THEN [connections EXCEPT ![h] = 0] ELSE connections
    /\ task' = [task EXCEPT ![t].pc = "d_locks"]
    /\ UNCHANGED << perServerLocks, lockOwner, mutexReaders, conn, sess, sftp >>
    /\ UNCHANGED << calls, nonRegVars >>

\* step 3: sc.mutex.Lock(); delete the entries the snapshot saw
DisconnectRemove(t) ==
    /\ task[t].pc = "d_remove"
    /\ MutexFree
    /\ LET h == task[t].arg IN
       /\ terminalSessions' = IF task[t].sess # 0
                              THEN [terminalSessions EXCEPT ![h] = 0] ELSE terminalSessions
       /\ sftpClients' = IF task[t].sftp # 0
                         THEN [sftpClients EXCEPT ![h] = 0] ELSE sftpClients
       /\ connections' = IF task[t].conn # 0
                         THEN [connections EXCEPT ![h] = 0] ELSE connections
    /\ task' = [task EXCEPT ![t].pc = "d_locks"]
    /\ UNCHANGED << perServerLocks, lockOwner, mutexReaders, conn, sess, sftp >>
    /\ UNCHANGED << calls, nonRegVars >>

\* sc.locksMutex.Lock(); delete(sc.perServerLocks, serverID); return
DisconnectRemoveLock(t) ==
    /\ task[t].pc = "d_locks"
    /\ perServerLocks' = [perServerLocks EXCEPT ![task[t].arg] = 0]
    /\ task' = Returned(task, t, IF task[t].err = "none" THEN "ok" ELSE task[t].err)
    /\ UNCHANGED << connections, sftpClients, terminalSessions, lockOwner,
                    mutexReaders, conn, sess, sftp >>
    /\ UNCHANGED << calls, nonRegVars >>

\* ---------------------------------------------- GetServerConnectionStatus
\* sc.mutex.RLock(); defer sc.mutex.RUnlock()
StatusBegin(t) ==
    /\ Call(t)
    /\ task' = [Started(t, "status", 0) EXCEPT ![t].pc = "st_iter"]
    /\ mutexReaders' = mutexReaders \cup {t}
    /\ UNCHANGED << connections, sftpClients, terminalSessions, perServerLocks,
                    lockOwner, conn, sess, sftp >>

\* for serverID, conn := range sc.connections: the next entry, or the end of
\* the loop, where the deferred RUnlock runs
StatusIter(t) ==
    /\ task[t].pc = "st_iter"
    /\ LET todo == {h \in Hosts : connections[h] # 0 /\ h \notin task[t].visited} IN
       IF todo = {}
       THEN /\ task' = Returned(task, t, "ok")
            /\ mutexReaders' = mutexReaders \ {t}
       ELSE /\ \E h \in todo :
                 task' = IF conn[connections[h]].client # "nil"
                         THEN [task EXCEPT ![t].pc = "st_probe", ![t].arg = h,
                                           ![t].conn = connections[h]]
                         ELSE [task EXCEPT ![t].visited = @ \cup {h}]
            /\ UNCHANGED mutexReaders
    /\ UNCHANGED << connections, sftpClients, terminalSessions, perServerLocks,
                    lockOwner, conn, sess, sftp >>
    /\ UNCHANGED << calls, nonRegVars >>

\* a status check that reports a failed probe and keeps the entry
StatusProbeKeepEntry(t) ==
    /\ task[t].pc = "st_probe"
    /\ LET h == task[t].arg IN
       \E ok \in BOOLEAN :
         LET alive == ok /\ TransportOpen(task[t].conn) IN
         /\ UNCHANGED connections
         /\ task' = [task EXCEPT ![t].pc = "st_iter", ![t].arg = 0, ![t].conn = 0,
                                 ![t].visited = @ \cup {h},
                                 ![t].up = IF alive THEN @ \cup {h} ELSE @]
    /\ UNCHANGED << sftpClients, terminalSessions, perServerLocks, lockOwner,
                    mutexReaders, conn, sess, sftp >>
    /\ UNCHANGED << calls, nonRegVars >>

\* conn.Client.SendRequest("keepalive@openssh.com", ...) with the read lock
\* held: status[serverID] = true, or on failure delete(sc.connections,
\* serverID), still under the read lock, and status[serverID] = false.
\* up: the hosts whose status entry is true.
StatusProbe(t) ==
    /\ task[t].pc = "st_probe"
    /\ LET h == task[t].arg IN
       \E ok \in BOOLEAN :
         LET alive == ok /\ TransportOpen(task[t].conn) IN
         /\ connections' = IF alive THEN connections
                           ELSE [connections EXCEPT ![h] = 0]
         /\ task' = [task EXCEPT ![t].pc = "st_iter", ![t].arg = 0, ![t].conn = 0,
                                 ![t].visited = @ \cup {h},
                                 ![t].up = IF alive THEN @ \cup {h} ELSE @]
    /\ UNCHANGED << sftpClients, terminalSessions, perServerLocks, lockOwner,
                    mutexReaders, conn, sess, sftp >>
    /\ UNCHANGED << calls, nonRegVars >>


\* ---------------------------------------------------------- getServerLock
\* the host's *sync.Mutex, created and stored when the map has none
ServerLockOf(h) ==
    IF perServerLocks[h] # 0 THEN perServerLocks[h] ELSE Min(FreeLocks)

\* sc.locksMutex.Lock(); lookup or create; Unlock(): task t now points at it
GetServerLock(t, tk, next) ==
    LET h == tk[t].arg IN
    /\ perServerLocks' = [perServerLocks EXCEPT ![h] = ServerLockOf(h)]
    /\ task' = [tk EXCEPT ![t].pc = next, ![t].lock = ServerLockOf(h)]

\* serverLock.Lock(): blocks while another task holds this mutex object
ServerLockAcquire(t, next) ==
    /\ lockOwner[task[t].lock] = 0
    /\ lockOwner' = [lockOwner EXCEPT ![task[t].lock] = t]
    /\ task' = [task EXCEPT ![t].pc = next]

\* ------------------------------------------ CreateTerminalSessionWithSize
\* RLock: read the connection and whether a session is registered
OpenSessionRead(t, h) ==
    /\ Call(t)
    /\ LET tk == Started(t, "openSession", h)
           c == connections[h] IN
       task' = IF c = 0 \/ conn[c].client = "nil"
               THEN Returned(tk, t, "notconnected")
               ELSE [tk EXCEPT ![t].conn = c,
                               ![t].pc = IF terminalSessions[h] # 0
                                         THEN "s_active" ELSE "s_getlock"]
    /\ UNCHANGED << connections, sftpClients, terminalSessions, perServerLocks,
                    lockOwner, mutexReaders, conn, sess, sftp >>

\* IsTerminalSessionActive: RLock, read the entry again; isSessionActive is
\* true of every session, since OutputChan is never nil and never closed
OpenSessionActive(t) ==
    /\ task[t].pc = "s_active"
    /\ task' = IF terminalSessions[task[t].arg] # 0
               THEN Returned(task, t, "exists")
               ELSE [task EXCEPT ![t].pc = "s_delete"]
    /\ UNCHANGED << connections, sftpClients, terminalSessions, perServerLocks,
                    lockOwner, mutexReaders, conn, sess, sftp >>
    /\ UNCHANGED << calls, nonRegVars >>

\* the session is judged dead: sc.mutex.Lock(); delete(sc.terminalSessions, serverID)
OpenSessionDeleteDead(t) ==
    /\ task[t].pc = "s_delete"
    /\ MutexFree
    /\ terminalSessions' = [terminalSessions EXCEPT ![task[t].arg] = 0]
    /\ task' = [task EXCEPT ![t].pc = "s_getlock"]
    /\ UNCHANGED << connections, sftpClients, perServerLocks, lockOwner,
                    mutexReaders, conn, sess, sftp >>
    /\ UNCHANGED << calls, nonRegVars >>

\* serverLock := sc.getServerLock(serverID)
OpenSessionGetLock(t) ==
    /\ task[t].pc = "s_getlock"
    /\ GetServerLock(t, task, "s_lock")
    /\ UNCHANGED << connections, sftpClients, terminalSessions, lockOwner,
                    mutexReaders, conn, sess, sftp >>
    /\ UNCHANGED << calls, nonRegVars >>

\* serverLock.Lock(); defer serverLock.Unlock()
OpenSessionLock(t) ==
    /\ task[t].pc = "s_lock"
    /\ ServerLockAcquire(t, "s_create")
    /\ UNCHANGED << connections, sftpClients, terminalSessions, perServerLocks,
                    mutexReaders, conn, sess, sftp >>
    /\ UNCHANGED << calls, nonRegVars >>

\* SSHConnection.CreateTerminalSession can succeed: the handle is set and the
\* transport has not been closed
CanOpenChannel(c) == conn[c].client = "open" /\ TransportOpen(c)

\* conn.CreateTerminalSession(width, height): transport I/O under the
\* per-server lock only; on failure the method returns (deferred Unlock)
OpenSessionCreate(t) ==
    /\ task[t].pc = "s_create"
    /\ \E ok \in BOOLEAN :
         IF ok /\ CanOpenChannel(task[t].conn) /\ FreeSess # {}
         THEN LET s == Min(FreeSess) IN
              /\ sess' = [sess EXCEPT ![s] = [host |-> task[t].arg, state |-> "open"]]
              /\ task' = [task EXCEPT ![t].pc = "s_publish", ![t].sess = s]
              /\ UNCHANGED lockOwner
         ELSE /\ task' = Returned(task, t, "error")
              /\ lockOwner' = Unlocked(t)
              /\ UNCHANGED sess
    /\ UNCHANGED << connections, sftpClients, terminalSessions, perServerLocks,
                    mutexReaders, conn, sftp >>
    /\ UNCHANGED << calls, nonRegVars >>

\* OpenSessionPublish whose loser forgets to close what it created
OpenSessionPublishNoDiscard(t) ==
    /\ task[t].pc = "s_publish"
    /\ MutexFree
    /\ LET h == task[t].arg IN
       IF terminalSessions[h] # 0
       THEN /\ task' = Returned(task, t, "exists")
            /\ UNCHANGED terminalSessions
       ELSE /\ terminalSessions' = [terminalSessions EXCEPT ![h] = task[t].sess]
            /\ task' = Returned(task, t, "created")
    /\ lockOwner' = Unlocked(t)
    /\ UNCHANGED << connections, sftpClients, perServerLocks, mutexReaders,
                    conn, sess, sftp >>
    /\ UNCHANGED << calls, nonRegVars >>

\* sc.mutex.Lock(); double-check; sc.terminalSessions[serverID] = terminalSession
OpenSessionPublish(t) ==
    /\ task[t].pc = "s_publish"
    /\ MutexFree
    /\ LET h == task[t].arg IN
       IF terminalSessions[h] # 0
       THEN /\ task' = [task EXCEPT ![t].pc = "s_discard"]
            /\ UNCHANGED << terminalSessions, lockOwner >>
       ELSE /\ terminalSessions' = [terminalSessions EXCEPT ![h] = task[t].sess]
            /\ task' = Returned(task, t, "created")
            /\ lockOwner' = Unlocked(t)
    /\ UNCHANGED << connections, sftpClients, perServerLocks, mutexReaders,
                    conn, sess, sftp >>
    /\ UNCHANGED << calls, nonRegVars >>

\* the loser closes the session it created: _ = terminalSession.Close()
OpenSessionDiscard(t) ==
    /\ task[t].pc = "s_discard"
    /\ sess' = [sess EXCEPT ![task[t].sess].state = "closed"]
    /\ task' = Returned(task, t, "exists")
    /\ lockOwner' = Unlocked(t)
    /\ UNCHANGED << connections, sftpClients, terminalSessions, perServerLocks,
                    mutexReaders, conn, sftp >>
    /\ UNCHANGED << calls, nonRegVars >>

\* ------------------------------------------------------- CreateSFTPClient
\* RLock: read the connection and whether an sftp client is registered
OpenSftpRead(t, h) ==
    /\ Call(t)
    /\ LET tk == Started(t, "openSftp", h)
           c == connections[h] IN
       task' = IF c = 0 \/ conn[c].client = "nil"
               THEN Returned(tk, t, "notconnected")
               ELSE IF sftpClients[h] # 0
               THEN Returned(tk, t, "exists")
               ELSE [tk EXCEPT ![t].conn = c, ![t].pc = "f_getlock"]
    /\ UNCHANGED << connections, sftpClients, terminalSessions, perServerLocks,
                    lockOwner, mutexReaders, conn, sess, sftp >>

\* serverLock := sc.getServerLock(serverID)
OpenSftpGetLock(t) ==
    /\ task[t].pc = "f_getlock"
    /\ GetServerLock(t, task, "f_lock")
    /\ UNCHANGED << connections, sftpClients, terminalSessions, lockOwner,
                    mutexReaders, conn, sess, sftp >>
    /\ UNCHANGED << calls, nonRegVars >>

\* serverLock.Lock(); defer serverLock.Unlock()
OpenSftpLock(t) ==
    /\ task[t].pc = "f_lock"
    /\ ServerLockAcquire(t, "f_create")
    /\ UNCHANGED << connections, sftpClients, terminalSessions, perServerLocks,
                    mutexReaders, conn, sess, sftp >>
    /\ UNCHANGED << calls, nonRegVars >>

\* conn.CreateSFTPClient(): transport I/O under the per-server lock only
OpenSftpCreate(t) ==
    /\ task[t].pc = "f_create"
    /\ \E ok \in BOOLEAN :
         IF ok /\ CanOpenChannel(task[t].conn) /\ FreeSftps # {}
         THEN LET f == Min(FreeSftps) IN
              /\ sftp' = [sftp EXCEPT ![f] = [host |-> task[t].arg, state |-> "open"]]
              /\ task' = [task EXCEPT ![t].pc = "f_publish", ![t].sftp = f]
              /\ UNCHANGED lockOwner
         ELSE /\ task' = Returned(task, t, "error")
              /\ lockOwner' = Unlocked(t)
              /\ UNCHANGED sftp
    /\ UNCHANGED << connections, sftpClients, terminalSessions, perServerLocks,
                    mutexReaders, conn, sess >>
    /\ UNCHANGED << calls, nonRegVars >>

\* sc.mutex.Lock(); double-check; sc.sftpClients[serverID] = sftpClient
OpenSftpPublish(t) ==
    /\ task[t].pc = "f_publish"
    /\ MutexFree
    /\ LET h == task[t].arg IN
       IF sftpClients[h] # 0
       THEN /\ task' = [task EXCEPT ![t].pc = "f_discard"]
            /\ UNCHANGED << sftpClients, lockOwner >>
       ELSE /\ sftpClients' = [sftpClients EXCEPT ![h] = task[t].sftp]
            /\ task' = Returned(task, t, "created")
            /\ lockOwner' = Unlocked(t)
    /\ UNCHANGED << connections, terminalSessions, perServerLocks, mutexReaders,
                    conn, sess, sftp >>
    /\ UNCHANGED << calls, nonRegVars >>

\* the loser closes the client it created: _ = sftpClient.Close()
OpenSftpDiscard(t) ==
    /\ task[t].pc = "f_discard"
    /\ sftp' = [sftp EXCEPT ![task[t].sftp].state = "closed"]
    /\ task' = Returned(task, t, "exists")
    /\ lockOwner' = Unlocked(t)
    /\ UNCHANGED << connections, sftpClients, terminalSessions, perServerLocks,
                    mutexReaders, conn, sess >>
    /\ UNCHANGED << calls, nonRegVars >>

\* --------------------------------------------------- CloseTerminalSession
\* serverLock := sc.getServerLock(serverID)
CloseSessionGetLock(t, h) ==
    /\ Call(t)
    /\ GetServerLock(t, Started(t, "closeSession", h), "x_lock")
    /\ UNCHANGED << connections, sftpClients, terminalSessions, lockOwner,
                    mutexReaders, conn, sess, sftp >>

\* serverLock.Lock(); defer serverLock.Unlock()
CloseSessionLock(t) ==
    /\ task[t].pc = "x_lock"
    /\ ServerLockAcquire(t, "x_read")
    /\ UNCHANGED << connections, sftpClients, terminalSessions, perServerLocks,
                    mutexReaders, conn, sess, sftp >>
    /\ UNCHANGED << calls, nonRegVars >>

\* CloseSessionRead whose early return leaves the per-host lock locked (an
\* Unlock that is not deferred)
CloseSessionReadNoUnlock(t) ==
    /\ task[t].pc = "x_read"
    /\ LET s == terminalSessions[task[t].arg] IN
       IF s = 0
       THEN task' = Returned(task, t, "nosession")
       ELSE task' = [task EXCEPT ![t].pc = "x_close", ![t].sess = s]
    /\ UNCHANGED << connections, sftpClients, terminalSessions, perServerLocks,
                    lockOwner, mutexReaders, conn, sess, sftp >>
    /\ UNCHANGED << calls, nonRegVars >>

\* RLock: session, hasSession := sc.terminalSessions[serverID]
CloseSessionRead(t) ==
    /\ task[t].pc = "x_read"
    /\ LET s == terminalSessions[task[t].arg] IN
       IF s = 0
       THEN /\ task' = Returned(task, t, "nosession")
            /\ lockOwner' = Unlocked(t)
       ELSE /\ task' = [task EXCEPT ![t].pc = "x_close", ![t].sess = s]
            /\ UNCHANGED lockOwner
    /\ UNCHANGED << connections, sftpClients, terminalSessions, perServerLocks,
                    mutexReaders, conn, sess, sftp >>
    /\ UNCHANGED << calls, nonRegVars >>

\* go session.Close(), awaited for at most one second
CloseSessionClose(t) ==
    /\ task[t].pc = "x_close"
    /\ \E out \in CloseOutcomes(task[t].sess) :
         /\ sess' = [sess EXCEPT ![task[t].sess].state = "closed"]
         /\ task' = [task EXCEPT ![t].pc = "x_remove", ![t].err = out]
    /\ UNCHANGED << connections, sftpClients, terminalSessions, perServerLocks,
                    lockOwner, mutexReaders, conn, sftp >>
    /\ UNCHANGED << calls, nonRegVars >>

\* CloseSessionRemove that returns the error of a failed or timed-out close
\* at once, before the entry is removed
CloseSessionRemoveUnlessError(t) ==
    /\ task[t].pc = "x_remove"
    /\ MutexFree
    /\ terminalSessions' = IF task[t].err = "none"
                           THEN [terminalSessions EXCEPT ![task[t].arg] = 0]
                           ELSE terminalSessions
    /\ task' = Returned(task, t, IF task[t].err = "none" THEN "ok" ELSE task[t].err)
    /\ lockOwner' = Unlocked(t)
    /\ UNCHANGED << connections, sftpClients, perServerLocks, mutexReaders,
                    conn, sess, sftp >>
    /\ UNCHANGED << calls, nonRegVars >>

\* sc.mutex.Lock(); delete(sc.terminalSessions, serverID); return
CloseSessionRemove(t) ==
    /\ task[t].pc = "x_remove"
    /\ MutexFree
    /\ terminalSessions' = [terminalSessions EXCEPT ![task[t].arg] = 0]
    /\ task' = Returned(task, t, IF task[t].err = "none" THEN "ok" ELSE task[t].err)
    /\ lockOwner' = Unlocked(t)
    /\ UNCHANGED << connections, sftpClients, perServerLocks, mutexReaders,
                    conn, sess, sftp >>
    /\ UNCHANGED << calls, nonRegVars >>


\* -------------------------- CreateTerminalSession (with isConnectionHealthy)
\* isConnectionHealthy: RLock, read the connection
CreateSessionHealthRead(t, h) ==
    /\ Call(t)
    /\ LET tk == Started(t, "createSession", h)
           c == connections[h] IN
       task' = IF c = 0 \/ conn[c].client = "nil"
               THEN Returned(tk, t, "notconnected")
               ELSE [tk EXCEPT ![t].conn = c, ![t].pc = "n_probe"]
    /\ UNCHANGED << connections, sftpClients, terminalSessions, perServerLocks,
                    lockOwner, mutexReaders, conn, sess, sftp >>

\* isConnectionHealthy: `_, err := conn.Client.NewSession()` as a probe, no
\* lock held.  When it succeeds a channel has been opened on the transport;
\* the session value is dropped, so nothing closes the channel before the
\* transport itself is closed.  probes: the channels of this kind still open.
CreateSessionProbe(t) ==
    /\ task[t].pc = "n_probe"
    /\ \E ok \in BOOLEAN :
         IF ok /\ CanOpenChannel(task[t].conn)
         THEN /\ conn' = [conn EXCEPT ![task[t].conn].probes = @ + 1]
              /\ task' = [task EXCEPT ![t].pc = "n_read"]
         ELSE /\ task' = [task EXCEPT ![t].pc = "n_evict"]
              /\ UNCHANGED conn
    /\ UNCHANGED << connections, sftpClients, terminalSessions, perServerLocks,
                    lockOwner, mutexReaders, sess, sftp >>
    /\ UNCHANGED << calls, nonRegVars >>

\* isConnectionHealthy, probe failed: sc.mutex.Lock(); delete(sc.connections, serverID)
CreateSessionEvict(t) ==
    /\ task[t].pc = "n_evict"
    /\ MutexFree
    /\ connections' = [connections EXCEPT ![task[t].arg] = 0]
    /\ task' = Returned(task, t, "notconnected")
    /\ UNCHANGED << sftpClients, terminalSessions, perServerLocks, lockOwner,
                    mutexReaders, conn, sess, sftp >>
    /\ UNCHANGED << calls, nonRegVars >>

\* RLock: read the registered session; isSessionActive holds of every session,
\* so the dead-session cleanup of this method is never taken
CreateSessionReadSession(t) ==
    /\ task[t].pc = "n_read"
    /\ task' = IF terminalSessions[task[t].arg] # 0
               THEN Returned(task, t, "exists")
               ELSE [task EXCEPT ![t].pc = "n_conn"]
    /\ UNCHANGED << connections, sftpClients, terminalSessions, perServerLocks,
                    lockOwner, mutexReaders, conn, sess, sftp >>
    /\ UNCHANGED << calls, nonRegVars >>

\* RLock: conn, exists := sc.connections[serverID]
CreateSessionReadConn(t) ==
    /\ task[t].pc = "n_conn"
    /\ LET c == connections[task[t].arg] IN
       task' = IF c = 0 \/ conn[c].client = "nil"
               THEN Returned(task, t, "notconnected")
               ELSE [task EXCEPT ![t].conn = c, ![t].pc = "n_create"]
    /\ UNCHANGED << connections, sftpClients, terminalSessions, perServerLocks,
                    lockOwner, mutexReaders, conn, sess, sftp >>
    /\ UNCHANGED << calls, nonRegVars >>

\* conn.CreateTerminalSession(80, 24): transport I/O, no lock of any kind held
CreateSessionCreate(t) ==
    /\ task[t].pc = "n_create"
    /\ \E ok \in BOOLEAN :
         IF ok /\ CanOpenChannel(task[t].conn) /\ FreeSess # {}
         THEN LET s == Min(FreeSess) IN
              /\ sess' = [sess EXCEPT ![s] = [host |-> task[t].arg, state |-> "open"]]
              /\ task' = [task EXCEPT ![t].pc = "n_publish", ![t].sess = s]
         ELSE /\ task' = Returned(task, t, "error")
              /\ UNCHANGED sess
    /\ UNCHANGED << connections, sftpClients, terminalSessions, perServerLocks,
                    lockOwner, mutexReaders, conn, sftp >>
    /\ UNCHANGED << calls, nonRegVars >>

\* sc.mutex.Lock(); final check; sc.terminalSessions[serverID] = terminalSession
CreateSessionPublish(t) ==
    /\ task[t].pc = "n_publish"
    /\ MutexFree
    /\ LET h == task[t].arg IN
       IF terminalSessions[h] # 0
       THEN /\ task' = [task EXCEPT ![t].pc = "n_discard"]
            /\ UNCHANGED terminalSessions
       ELSE /\ terminalSessions' = [terminalSessions EXCEPT ![h] = task[t].sess]
            /\ task' = Returned(task, t, "created")
    /\ UNCHANGED << connections, sftpClients, perServerLocks, lockOwner,
                    mutexReaders, conn, sess, sftp >>
    /\ UNCHANGED << calls, nonRegVars >>

\* terminalSession.Close(): the surplus session is cleaned up
CreateSessionDiscard(t) ==
    /\ task[t].pc = "n_discard"
    /\ sess' = [sess EXCEPT ![task[t].sess].state = "closed"]
    /\ task' = Returned(task, t, "exists")
    /\ UNCHANGED << connections, sftpClients, terminalSessions, perServerLocks,
                    lockOwner, mutexReaders, conn, sftp >>
    /\ UNCHANGED << calls, nonRegVars >>



\* ------------------------------------------------------- ExecCommandDirect
\* RLock, read the connection; if !exists || conn.Client == nil { return error }
ExecCommandDirect(t, h) ==
    /\ Call(t)
    /\ LET tk == Started(t, "exec", h)
           c == connections[h] IN
       task' = IF c = 0 \/ conn[c].client = "nil"
               THEN Returned(tk, t, "notconnected")
               ELSE [tk EXCEPT ![t].conn = c, ![t].pc = "e_run"]
    /\ UNCHANGED << connections, sftpClients, terminalSessions, perServerLocks,
                    lockOwner, mutexReaders, conn, sess, sftp >>

\* conn.ExecuteCommand(command): a transport session is opened, the command
\* runs, the session is closed; no lock held
ExecRun(t) ==
    /\ task[t].pc = "e_run"
    /\ \E ok \in BOOLEAN :
         task' = Returned(task, t, IF ok /\ CanOpenChannel(task[t].conn)
                                   THEN "ok" ELSE "error")
    /\ UNCHANGED << connections, sftpClients, terminalSessions, perServerLocks,
                    lockOwner, mutexReaders, conn, sess, sftp >>
    /\ UNCHANGED << calls, nonRegVars >>

\* -------- UploadFile, DownloadFile, ListDirectory, CreateDirectory, DeleteFile
\* a file operation that looks only for the sftp client
TransferReadNoConnCheck(t, h) ==
    /\ Call(t)
    /\ LET tk == Started(t, "transfer", h) IN
       task' = IF sftpClients[h] = 0
               THEN Returned(tk, t, "nosftp")
               ELSE [tk EXCEPT ![t].conn = connections[h], ![t].sftp = sftpClients[h],
                               ![t].pc = "u_run"]
    /\ UNCHANGED << connections, sftpClients, terminalSessions, perServerLocks,
                    lockOwner, mutexReaders, conn, sess, sftp >>

\* RLock, read the connection and the sftp client;
\* if !exists || conn.Client == nil { return error }; if !sftpExists { return error }
TransferRead(t, h) ==
    /\ Call(t)
    /\ LET tk == Started(t, "transfer", h)
           c == connections[h] IN
       task' = IF c = 0 \/ conn[c].client = "nil"
               THEN Returned(tk, t, "notconnected")
               ELSE IF sftpClients[h] = 0
               THEN Returned(tk, t, "nosftp")
               ELSE [tk EXCEPT ![t].conn = c, ![t].sftp = sftpClients[h],
                               ![t].pc = "u_run"]
    /\ UNCHANGED << connections, sftpClients, terminalSessions, perServerLocks,
                    lockOwner, mutexReaders, conn, sess, sftp >>

\* conn.UploadFile(sftpClient, ...) and the like: transport I/O, no lock held
TransferRun(t) ==
    /\ task[t].pc = "u_run"
    /\ \E ok \in BOOLEAN :
         task' = Returned(task, t,
                          IF /\ ok
                             /\ task[t].conn # 0
                             /\ sftp[task[t].sftp].state = "open"
                             /\ TransportOpen(task[t].conn)
                          THEN "ok" ELSE "error")
    /\ UNCHANGED << connections, sftpClients, terminalSessions, perServerLocks,
                    lockOwner, mutexReaders, conn, sess, sftp >>
    /\ UNCHANGED << calls, nonRegVars >>

\* ------------------------------------------------------------ the registry
Next ==
    \E t \in Tasks :
        \/ \E h \in Hosts : ConnectCheck(t, h)
        \/ ConnectDial(t)
        \/ ConnectPublish(t)
        \/ ConnectDiscard(t)
        \/ \E h \in Hosts : DisconnectSnapshot(t, h)
        \/ DisconnectCloseSession(t)
        \/ DisconnectCloseSftp(t)
        \/ DisconnectCloseConn(t)
        \/ DisconnectNilClient(t)
        \/ DisconnectRemove(t)
        \/ DisconnectRemoveLock(t)
        \/ StatusBegin(t)
        \/ StatusIter(t)
        \/ StatusProbe(t)
        \/ \E h \in Hosts : OpenSessionRead(t, h)
        \/ OpenSessionActive(t)
        \/ OpenSessionDeleteDead(t)
        \/ OpenSessionGetLock(t)
        \/ OpenSessionLock(t)
        \/ OpenSessionCreate(t)
        \/ OpenSessionPublish(t)
        \/ OpenSessionDiscard(t)
        \/ \E h \in Hosts : OpenSftpRead(t, h)
        \/ OpenSftpGetLock(t)
        \/ OpenSftpLock(t)
        \/ OpenSftpCreate(t)
        \/ OpenSftpPublish(t)
        \/ OpenSftpDiscard(t)
        \/ \E h \in Hosts : CloseSessionGetLock(t, h)
        \/ CloseSessionLock(t)
        \/ CloseSessionRead(t)
        \/ CloseSessionClose(t)
        \/ CloseSessionRemove(t)
        \/ \E h \in Hosts : CreateSessionHealthRead(t, h)
        \/ CreateSessionProbe(t)
        \/ CreateSessionEvict(t)
        \/ CreateSessionReadSession(t)
        \/ CreateSessionReadConn(t)
        \/ CreateSessionCreate(t)
        \/ CreateSessionPublish(t)
        \/ CreateSessionDiscard(t)
        \/ \E h \in Hosts : ExecCommandDirect(t, h)
        \/ ExecRun(t)
        \/ \E h \in Hosts : TransferRead(t, h)
        \/ TransferRun(t)

vars == << regVars, closeVars, pumpVars, batchVars, execVars, autoVars, readVars >>

Init == InitRegistry /\ InitClose /\ InitPump /\ InitBatch /\ InitExec /\ InitAuto

Spec == Init /\ [][Next]_vars


\* ================================================================ properties
\* resources of host h that were created and have not been closed
LiveConns(h) == {c \in ConnIds : conn[c].host = h /\ conn[c].client # "none"
                                 /\ conn[c].closes = 0}
LiveSessions(h) == {s \in SessIds : sess[s].host = h /\ sess[s].state = "open"}
LiveSftps(h) == {f \in SftpIds : sftp[f].host = h /\ sftp[f].state = "open"}

\* task t has just returned from method o (the step that makes it idle)
Returns(t, o) == task[t].pc # "idle" /\ task'[t].pc = "idle" /\ task'[t].op = o

\* t is idle after a call of o on host h that overlapped calls of o only
CleanCall(t, o, h) ==
    /\ task[t].pc = "idle" /\ task[t].op = o /\ task[t].arg = h /\ task[t].clean

\* t and u have both returned from ConnectToServer(h); the two calls
\* overlapped each other and nothing else on h, and both dialed
ConnectRaceOver(t, u, h) ==
    /\ t # u
    /\ CleanCall(t, "connect", h) /\ CleanCall(u, "connect", h)
    /\ task[t].ovl = {u} /\ u \in Tasks /\ t \in task[u].ovl
    /\ task[t].conn # 0 /\ task[u].conn # 0

\* exactly one of the two dialed connections is registered and open, and the
\* other one has been closed exactly once
ConnectRaceResult(t, u, h) ==
    /\ connections[h] \in {task[t].conn, task[u].conn}
    /\ conn[connections[h]].client = "open" /\ conn[connections[h]].closes = 0
    /\ \A c \in {task[t].conn, task[u].conn} \ {connections[h]} :
          conn[c].closes = 1 /\ conn[c].client = "nil"
    /\ task[t].conn # task[u].conn

\* C1: when two concurrent ConnectToServer(h) calls on a host without a
\* registry entry have both dialed and both returned, the connections map holds
\* one entry for h, it is one of the two dialed connections and its handle is
\* open, and the other dialed connection has been closed exactly once.
C1_ConnectRaceOneSurvivor ==
    [][\A t \in Tasks : \A u \in Tasks : \A h \in Hosts :
          (Returns(t, "connect") /\ ConnectRaceOver(t, u, h)')
              => ConnectRaceResult(t, u, h)']_vars

C1_Witness ==
    \E t \in Tasks : \E u \in Tasks : \E h \in Hosts :
        /\ ConnectRaceOver(t, u, h)
        /\ connections[h] = task[t].conn
        /\ conn[task[u].conn].closes = 1

\* C2: in every reachable state, for every host, at most one connection, at
\* most one session and at most one sftp client exist that were created and
\* have not been closed.
C2_AtMostOneLive ==
    \A h \in Hosts :
        /\ Cardinality(LiveConns(h)) <= 1
        /\ Cardinality(LiveSessions(h)) <= 1
        /\ Cardinality(LiveSftps(h)) <= 1

\* no call that touches host h is in flight
AtRest(h) == \A t \in Tasks : task[t].pc = "idle" \/ (task[t].arg # h /\ task[t].op # "status")

\* C2 taken only at the instants where no call on the host is in flight, so
\* that the duplicate a creation race is about to discard is not counted: even
\* then two unclosed resources of one kind exist for a host.
C2_AtMostOneLiveAtRest ==
    \A h \in Hosts : AtRest(h) =>
        /\ Cardinality(LiveConns(h)) <= 1
        /\ Cardinality(LiveSessions(h)) <= 1
        /\ Cardinality(LiveSftps(h)) <= 1

\* t and u have both returned from method o on h; the calls overlapped each
\* other and nothing else on h
RaceOver(t, u, o, h) ==
    /\ t # u
    /\ CleanCall(t, o, h) /\ CleanCall(u, o, h)
    /\ task[t].ovl = {u} /\ t \in task[u].ovl

\* C3: when two CreateTerminalSessionWithSize(h) calls, or two
\* CreateSFTPClient(h) calls, have raced, both created their resource and both
\* returned, the registry holds one of the two resources for h, it is not
\* closed, and the other one has been closed.
C3_CreationRaceOneSurvivor ==
    [][\A t \in Tasks : \A u \in Tasks : \A h \in Hosts :
          /\ (/\ Returns(t, "openSession")
              /\ (RaceOver(t, u, "openSession", h) /\ task[t].sess # 0 /\ task[u].sess # 0)')
               => (/\ terminalSessions[h] \in {task[t].sess, task[u].sess}
                   /\ sess[terminalSessions[h]].state = "open"
                   /\ \A s \in {task[t].sess, task[u].sess} \ {terminalSessions[h]} :
                         sess[s].state = "closed"
                   /\ task[t].sess # task[u].sess)'
          /\ (/\ Returns(t, "openSftp")
              /\ (RaceOver(t, u, "openSftp", h) /\ task[t].sftp # 0 /\ task[u].sftp # 0)')
               => (/\ sftpClients[h] \in {task[t].sftp, task[u].sftp}
                   /\ sftp[sftpClients[h]].state = "open"
                   /\ \A f \in {task[t].sftp, task[u].sftp} \ {sftpClients[h]} :
                         sftp[f].state = "closed"
                   /\ task[t].sftp # task[u].sftp)']_vars

C3_Witness ==
    \E t \in Tasks : \E u \in Tasks : \E h \in Hosts :
        /\ RaceOver(t, u, "openSession", h)
        /\ task[t].sess # 0 /\ task[u].sess # 0
        /\ terminalSessions[h] = task[t].sess
        /\ sess[task[u].sess].state = "closed"

\* the steps of a call that create, publish, close or remove a resource of its
\* host, from the first such step of the call to the last
LifecyclePcs ==
    {"c_dial", "c_publish", "c_discard",
     "d_sess", "d_sftp", "d_conn", "d_nil", "d_remove",
     "n_create", "n_publish", "n_discard",
     "s_delete", "s_create", "s_publish", "s_discard",
     "f_create", "f_publish", "f_discard",
     "x_close", "x_remove"}

HoldsServerLock(t) == task[t].lock # 0 /\ lockOwner[task[t].lock] = t

\* C4: a task that is at a step creating, publishing, closing or removing a
\* connection, session or sftp client of host h holds h's per-host lock.
C4_LifecycleUnderServerLock ==
    \A t \in Tasks : task[t].pc \in LifecyclePcs => HoldsServerLock(t)

\* the sections the code brackets with serverLock.Lock() / Unlock()
LockedSectionPcs ==
    {"s_create", "s_publish", "s_discard", "f_create", "f_publish", "f_discard",
     "x_read", "x_close", "x_remove"}

InLockedSection(h) == {t \in Tasks : task[t].pc \in LockedSectionPcs /\ task[t].arg = h}

\* C5: for every host, at most one task at a time is inside a section
\* protected by the host's per-host lock.
C5_OneTaskPerHostSection ==
    \A h \in Hosts : Cardinality(InLockedSection(h)) <= 1

\* the steps that are a blocking call on the transport
TransportIOPcs ==
    {"c_dial", "c_discard", "d_sess", "d_sftp", "d_conn",
     "n_probe", "n_create", "n_discard", "s_create", "s_discard",
     "f_create", "f_discard", "x_close", "st_probe"}

\* C6: no task is in a transport call while it holds the shared map lock
\* sc.mutex, in read or in write mode.
C6_NoTransportIOUnderMutex ==
    \A t \in Tasks : task[t].pc \in TransportIOPcs => t \notin mutexReaders

\* the steps that begin with sc.mutex.Lock()
MutexLockPcs ==
    {"c_publish", "d_remove", "s_delete", "s_publish", "f_publish", "x_remove",
     "n_evict", "n_publish"}

\* task u cannot take its next step because task t holds the lock it needs
BlockedBy(u, t) ==
    \/ task[u].pc \in MutexLockPcs /\ t \in mutexReaders
    \/ /\ task[u].pc \in {"s_lock", "f_lock", "x_lock"}
       /\ lockOwner[task[u].lock] = t

\* C7: a call on host h2 never waits for a lock that another task keeps while
\* it is in a transport call on a different host h1.
C7_HostsNeverBlockEachOther ==
    \A u \in Tasks : \A t \in Tasks \ {u} :
        (BlockedBy(u, t) /\ task[t].pc \in TransportIOPcs) => task[t].arg = task[u].arg

\* C10: when DisconnectFromServer(h) returns and no other call on h overlapped
\* it, none of the sessions, sftp-clients, connections and per-host-lock maps
\* has an entry for h, whatever the outcome of the closes was.
C10_DisconnectLeavesNoEntry ==
    [][\A t \in Tasks :
          (Returns(t, "disconnect") /\ task'[t].ovl = {})
              => LET h == task'[t].arg IN
                 /\ terminalSessions'[h] = 0
                 /\ sftpClients'[h] = 0
                 /\ connections'[h] = 0
                 /\ perServerLocks'[h] = 0]_vars

C10_Witness ==
    \E t \in Tasks :
        /\ task[t].pc = "idle" /\ task[t].op = "disconnect" /\ task[t].ovl = {}
        /\ task[t].res \in {"error", "timeout"}
        /\ terminalSessions[task[t].arg] = 0 /\ connections[task[t].arg] = 0
        /\ sftpClients[task[t].arg] = 0 /\ perServerLocks[task[t].arg] = 0
        /\ \E s \in SessIds : sess[s].host = task[t].arg /\ sess[s].state = "closed"



\* -------------------------------------------------------------- health checks
\* the four host-keyed maps of the registry
Maps == << connections, sftpClients, terminalSessions, perServerLocks >>

\* the maps after the step differ from those before it at most in that host
\* h has no connection entry
OnlyEvicted(h) ==
    /\ connections' = [connections EXCEPT ![h] = 0]
    /\ UNCHANGED << sftpClients, terminalSessions, perServerLocks >>

\* C16: a health check whose probe fails removes the host's connection entry
\* and reports false; one whose probe succeeds reports true and changes no
\* map.  A probe of a connection whose transport has been closed fails.
\* (GetServerConnectionStatus reports in its status map, isConnectionHealthy
\* to CreateTerminalSession, which goes on only if the report is true.)
C16_HealthCheckEvictsOnFailure ==
    [][\A t \in Tasks :
        /\ (task[t].pc = "st_probe" /\ task'[t].pc # "st_probe") =>
              LET h == task[t].arg IN
              /\ \/ h \in task'[t].up /\ UNCHANGED Maps
                 \/ h \notin task'[t].up /\ OnlyEvicted(h) /\ connections'[h] = 0
              /\ ~TransportOpen(task[t].conn) => h \notin task'[t].up
        /\ (task[t].pc = "n_probe" /\ task'[t].pc # "n_probe") =>
              /\ UNCHANGED Maps
              /\ task'[t].pc \in {"n_read", "n_evict"}
              /\ ~TransportOpen(task[t].conn) => task'[t].pc = "n_evict"
        /\ (task[t].pc = "n_evict" /\ task'[t].pc # "n_evict") =>
              /\ OnlyEvicted(task[t].arg)
              /\ connections'[task[t].arg] = 0
              /\ task'[t].res = "notconnected"
      ]_vars

\* a status check has found one host alive and kept its entry, and found
\* another host's probe failing and removed that entry
C16_Witness ==
    \E t \in Tasks :
        /\ task[t].op = "status"
        /\ task[t].pc = "st_iter"
        /\ \E h \in task[t].up : connections[h] # 0
        /\ \E h \in task[t].visited \ task[t].up :
              /\ connections[h] = 0
              /\ LiveConns(h) # {}

\* ------------------------------------------------ calls on a host not connected
\* the registry has no live connection for h: no entry, or an entry whose
\* handle is nil (what the methods test: !exists || conn.Client == nil)
NoLiveConn(h) == connections[h] = 0 \/ conn[connections[h]].client = "nil"

\* the method called by t has returned the not-connected error
NotConnected(t) == task'[t].pc = "idle" /\ task'[t].res = "notconnected"

\* C17: open_session (both variants), open_file_client, direct command
\* execution and the file operations, called for a host with no live
\* connection in the registry, return the not-connected error and leave the
\* connections, sessions and sftp-clients maps as they were.
C17_NotConnectedNoChange ==
    [][\A t \in Tasks : \A h \in Hosts :
        (/\ NoLiveConn(h)
         /\ \/ OpenSessionRead(t, h)
            \/ OpenSftpRead(t, h)
            \/ CreateSessionHealthRead(t, h)
            \/ (task[t].arg = h /\ CreateSessionReadConn(t))
            \/ ExecCommandDirect(t, h)
            \/ TransferRead(t, h))
        => (NotConnected(t) /\ UNCHANGED << connections, sftpClients, terminalSessions >>)
      ]_vars

\* a direct command or a file operation has been refused on a host whose
\* registered connection has a nil handle (a disconnect is closing it), while
\* the host has a registered session
C17_Witness ==
    \E t \in Tasks :
        /\ task[t].pc = "idle" /\ task[t].op \in {"exec", "transfer"}
        /\ task[t].res = "notconnected"
        /\ connections[task[t].arg] # 0
        /\ conn[connections[task[t].arg]].client = "nil"
        /\ terminalSessions[task[t].arg] # 0

\* ================================================ DisconnectFromServer returns
\* The steps of DisconnectFromServer that the code bounds: the session close
\* waits under the 10 s context (closeSessionWithTimeout), the rest are local
\* steps.  sftpClient.Close() and conn.Close() are plain calls into the
\* transport: nothing makes them return.
DisconnectBoundedStep(t) ==
    \/ DisconnectCloseSession(t)
    \/ (task[t].sftp = 0 /\ DisconnectCloseSftp(t))
    \/ (/\ IF task[t].conn = 0 THEN TRUE ELSE conn[task[t].conn].client # "open"
        /\ DisconnectCloseConn(t))
    \/ DisconnectNilClient(t)
    \/ DisconnectRemove(t)
    \/ DisconnectRemoveLock(t)

\* every step of the other controller methods, their transport calls included
OtherMethodStep(t) ==
    \/ ConnectDial(t) \/ ConnectPublish(t) \/ ConnectDiscard(t)
    \/ StatusIter(t) \/ StatusProbe(t)
    \/ OpenSessionActive(t) \/ OpenSessionDeleteDead(t) \/ OpenSessionGetLock(t)
    \/ OpenSessionLock(t) \/ OpenSessionCreate(t) \/ OpenSessionPublish(t)
    \/ OpenSessionDiscard(t)
    \/ OpenSftpGetLock(t) \/ OpenSftpLock(t) \/ OpenSftpCreate(t)
    \/ OpenSftpPublish(t) \/ OpenSftpDiscard(t)
    \/ CloseSessionLock(t) \/ CloseSessionRead(t) \/ CloseSessionClose(t)
    \/ CloseSessionRemove(t)
    \/ CreateSessionProbe(t) \/ CreateSessionEvict(t) \/ CreateSessionReadSession(t)
    \/ CreateSessionReadConn(t) \/ CreateSessionCreate(t) \/ CreateSessionPublish(t)
    \/ CreateSessionDiscard(t)
    \/ ExecRun(t) \/ TransferRun(t)

\* The registry with a scheduler that runs every goroutine that can run, a
\* context timer that fires, and a transport that answers every call of the
\* other methods; the two unguarded closes of DisconnectFromServer may hang.
SpecDisconnect ==
    /\ Init
    /\ [][Next]_vars
    /\ \A t \in Tasks : WF_vars(DisconnectBoundedStep(t))
    /\ \A t \in Tasks : WF_vars(OtherMethodStep(t))

InDisconnect(t) == task[t].op = "disconnect" /\ task[t].pc # "idle"

\* C11: every call of DisconnectFromServer returns, whatever the closes of the
\* session, the sftp client and the connection do.
C11_DisconnectAlwaysReturns ==
    \A t \in Tasks : InDisconnect(t) ~> (task[t].pc = "idle")

\* the part of C11 the code does give: the wait for the session close ends
C11_SessionCloseBounded ==
    \A t \in Tasks : (task[t].pc = "d_sess") ~> (task[t].pc # "d_sess")

\* =================================================== TerminalSession.Close
\* A goroutine started by `go` reaches its Close call at once; what can take
\* arbitrarily long, or for ever, is the return of that call.

\* ts.closeOnce.Do(f): the first caller runs f, a caller that arrives while f
\* runs waits for it, a later caller returns at once; `var err error` is a
\* local of each call
CloseEnter(c) ==
    /\ closer[c].pc = "idle"
    /\ IF once = "new"
       THEN /\ once' = "running"
            /\ closer' = [closer EXCEPT ![c].pc = "signal"]
       ELSE /\ closer' = [closer EXCEPT ![c].pc = IF once = "running" THEN "blocked"
                                                 ELSE "returned"]
            /\ UNCHANGED once
    /\ UNCHANGED << closeChan, ctx, stdinClose, sessionClose, stdinCloses,
                    sessionCloses, errCh, received >>
    /\ UNCHANGED nonCloseVars

\* close(ts.closeChan)
CloseSignal(c) ==
    /\ closer[c].pc = "signal"
    /\ closeChan' = TRUE
    /\ closer' = [closer EXCEPT ![c].pc = "spawn"]
    /\ UNCHANGED << once, ctx, stdinClose, sessionClose, stdinCloses,
                    sessionCloses, errCh, received >>
    /\ UNCHANGED nonCloseVars

\* context.WithTimeout(1s); errCh := make(chan error, 2); the two goroutines
\* that call ts.Stdin.Close() and ts.Session.Close()
CloseSpawn(c) ==
    /\ closer[c].pc = "spawn"
    /\ ctx' = "armed"
    /\ stdinClose' = "calling" /\ stdinCloses' = stdinCloses + 1
    /\ sessionClose' = "calling" /\ sessionCloses' = sessionCloses + 1
    /\ closer' = [closer EXCEPT ![c].pc = "wait"]
    /\ UNCHANGED << once, closeChan, errCh, received >>
    /\ UNCHANGED nonCloseVars

\* what a close goroutine sends: nil for a nil or io.EOF result, else the error
Sent(r, e) == IF r = "error" THEN e ELSE "nil"

\* ts.Stdin.Close() returns; the goroutine sends on errCh (never blocks: capacity 2)
StdinCloseReturns ==
    /\ stdinClose = "calling"
    /\ stdinClose' = "done"
    /\ \E r \in {"nil", "eof", "error"} : errCh' = Append(errCh, Sent(r, "stdinError"))
    /\ UNCHANGED << closer, once, closeChan, ctx, sessionClose, stdinCloses,
                    sessionCloses, received >>
    /\ UNCHANGED nonCloseVars

\* ts.Session.Close() returns; the goroutine sends on errCh
SessionCloseReturns ==
    /\ sessionClose = "calling"
    /\ sessionClose' = "done"
    /\ \E r \in {"nil", "eof", "error"} : errCh' = Append(errCh, Sent(r, "sessionError"))
    /\ UNCHANGED << closer, once, closeChan, ctx, stdinClose, stdinCloses,
                    sessionCloses, received >>
    /\ UNCHANGED nonCloseVars

\* the one second of the context passes
CtxExpires ==
    /\ ctx = "armed"
    /\ ctx' = "expired"
    /\ UNCHANGED << closer, once, closeChan, stdinClose, sessionClose, stdinCloses,
                    sessionCloses, errCh, received >>
    /\ UNCHANGED nonCloseVars

\* f returns: defer cancel(), Do marks the Once done, Close returns err
CloseFinished(c, e) ==
    /\ closer' = [closer EXCEPT ![c] = [pc |-> "returned", err |-> e]]
    /\ once' = "done"
    /\ ctx' = IF ctx = "armed" THEN "cancelled" ELSE ctx

\* a wait loop with no timeout case: it only receives from errCh
CloseWaitNoTimeout(c) ==
    /\ closer[c].pc = "wait"
    /\ errCh # << >>
    /\ LET e == IF Head(errCh) # "nil" /\ closer[c].err = "nil"
                THEN Head(errCh) ELSE closer[c].err IN
       /\ errCh' = Tail(errCh)
       /\ received' = received + 1
       /\ IF received + 1 = 2
          THEN CloseFinished(c, e)
          ELSE /\ closer' = [closer EXCEPT ![c].err = e]
               /\ UNCHANGED << once, ctx >>
    /\ UNCHANGED << closeChan, stdinClose, sessionClose, stdinCloses, sessionCloses >>
    /\ UNCHANGED nonCloseVars

\* for i := 0; i < 2; i++ { select { case closeErr := <-errCh: ...
\*                                   case <-ctx.Done(): err = timeout; return } }
CloseWait(c) ==
    /\ closer[c].pc = "wait"
    /\ \/ /\ errCh # << >>
          /\ LET e == IF Head(errCh) # "nil" /\ closer[c].err = "nil"
                      THEN Head(errCh) ELSE closer[c].err IN
             /\ errCh' = Tail(errCh)
             /\ received' = received + 1
             /\ IF received + 1 = 2
                THEN CloseFinished(c, e)
                ELSE /\ closer' = [closer EXCEPT ![c].err = e]
                     /\ UNCHANGED << once, ctx >>
       \/ /\ ctx = "expired"
          /\ CloseFinished(c, "timeout")
          /\ UNCHANGED << errCh, received >>
    /\ UNCHANGED << closeChan, stdinClose, sessionClose, stdinCloses, sessionCloses >>
    /\ UNCHANGED nonCloseVars

\* a caller that waited inside Do: f has returned, its own err is still nil
CloseUnblock(c) ==
    /\ closer[c].pc = "blocked"
    /\ once = "done"
    /\ closer' = [closer EXCEPT ![c].pc = "returned"]
    /\ UNCHANGED << once, closeChan, ctx, stdinClose, sessionClose, stdinCloses,
                    sessionCloses, errCh, received >>
    /\ UNCHANGED nonCloseVars

NextClose ==
    \/ \E c \in Closers :
        \/ CloseEnter(c)
        \/ CloseSignal(c)
        \/ CloseSpawn(c)
        \/ CloseWait(c)
        \/ CloseUnblock(c)
    \/ StdinCloseReturns
    \/ SessionCloseReturns
    \/ CtxExpires

\* the steps of a caller that is inside Close
CloseStep(c) == CloseSignal(c) \/ CloseSpawn(c) \/ CloseWait(c) \/ CloseUnblock(c)

\* Close on one session, called by up to NumClosers goroutines.  The runtime
\* schedules every goroutine that can run and the context's timer fires; the
\* two transport closes need never return.
SpecClose ==
    /\ Init
    /\ [][NextClose]_vars
    /\ WF_vars(CtxExpires)
    /\ \A c \in Closers : WF_vars(CloseStep(c))

\* ------------------------------------------------------ properties of Close
HasReturned(c) == closer[c].pc = "returned"

\* C8: once calls of Close have returned, the input sink and the session
\* handle have each been closed exactly once, and all calls that returned
\* report the same outcome.
C8_CloseOnceSameOutcome ==
    (\E c \in Closers : HasReturned(c)) =>
        /\ stdinCloses = 1
        /\ sessionCloses = 1
        /\ \A c \in Closers : \A d \in Closers :
              (HasReturned(c) /\ HasReturned(d)) => closer[c].err = closer[d].err

\* C9: every call of Close returns; the pumps are signalled before either
\* close starts, the two closes run concurrently, and a call that returned
\* while a close had not completed returned the timeout error.
C9_CloseAlwaysReturns ==
    /\ \A c \in Closers : (closer[c].pc # "idle") ~> HasReturned(c)
    /\ [](stdinCloses + sessionCloses > 0 => closeChan)
    /\ []((stdinClose = "none") <=> (sessionClose = "none"))
    /\ []((once = "done" /\ (stdinClose = "calling" \/ sessionClose = "calling"))
            => \E c \in Closers : HasReturned(c) /\ closer[c].err = "timeout")

C9_Witness ==
    /\ \A c \in Closers : HasReturned(c)
    /\ \E c \in Closers : closer[c].err = "timeout"
    /\ stdinClose = "calling"
    /\ sessionClose = "done"

\* ============================================== TerminalSession.readLoop
\* One session: its two pumps (go ts.readLoop(ts.stdout, ts.OutputChan) and
\* go ts.readLoop(ts.stderr, ts.ErrorChan)), the consumers of OutputChan and
\* the scrollback buffer.  A chunk is [seq, n]: the seq-th chunk its pump read,
\* n bytes long; its bytes are <<stream, seq, 1>> .. <<stream, seq, n>>.

\* the channel a pump writes to and the capacity it was made with
Cap(s) == IF s = "stdout" THEN OutputCap ELSE ErrorCap

Bytes(s, c) == [i \in 1..c.n |-> << s, c.seq, i >>]

\* b[len(b)-n:] for len(b) > n, else b
LastN(b, n) == IF Len(b) > n THEN SubSeq(b, Len(b) - n + 1, Len(b)) ELSE b

\* for { select { case <-ts.closeChan: return; default: ...
PumpSelect(s) ==
    /\ pump[s].pc = "select"
    /\ pump' = [pump EXCEPT ![s].pc = IF closeChan THEN "done" ELSE "reading"]
    /\ UNCHANGED << outQ, readLog, taken, lost, outputBuffer, logged >>
    /\ UNCHANGED nonPumpVars

\* n, err := r.Read(buf): n > 0 bytes, with or without io.EOF / an error, or
\* no bytes and io.EOF / an error (the loop returns)
PumpRead(s) ==
    /\ pump[s].pc = "reading"
    /\ \/ /\ Len(readLog["stdout"]) + Len(readLog["stderr"]) < MaxReads
          /\ \E n \in 1..ReadBufSize : \E e \in BOOLEAN :
               LET c == [seq |-> Len(readLog[s]) + 1, n |-> n] IN
               /\ pump' = [pump EXCEPT ![s] = [pc |-> "push", data |-> c, eof |-> e]]
               /\ readLog' = [readLog EXCEPT ![s] = Append(@, c)]
       \/ /\ pump' = [pump EXCEPT ![s].pc = "done"]
          /\ UNCHANGED readLog
    /\ UNCHANGED << outQ, taken, lost, outputBuffer, logged >>
    /\ UNCHANGED nonPumpVars

\* the pump returns from inside the push: the chunk it read is in neither the
\* queue nor the scrollback
PumpQuit(s) ==
    /\ closeChan
    /\ pump' = [pump EXCEPT ![s] = [pc |-> "done", data |-> NoChunk, eof |-> @.eof]]
    /\ lost' = [lost EXCEPT ![s] = @ + 1]
    /\ UNCHANGED << outQ, readLog, taken, outputBuffer, logged >>

\* a push that puts the chunk in front of the queued ones
PumpPushFront(s) ==
    /\ pump[s].pc = "push"
    /\ \/ /\ Len(outQ[s]) < Cap(s)
          /\ outQ' = [outQ EXCEPT ![s] = << pump[s].data >> \o @]
          /\ pump' = [pump EXCEPT ![s].pc = "append"]
          /\ UNCHANGED << readLog, taken, lost, outputBuffer, logged >>
       \/ PumpQuit(s)
       \/ /\ Len(outQ[s]) >= Cap(s)
          /\ ~closeChan
          /\ pump' = [pump EXCEPT ![s].pc = "drop"]
          /\ UNCHANGED << outQ, readLog, taken, lost, outputBuffer, logged >>
    /\ UNCHANGED nonPumpVars

\* select { case out <- data: ; case <-ts.closeChan: return; default: ... }
\* (select picks any case that is ready, default only when none is)
PumpPush(s) ==
    /\ pump[s].pc = "push"
    /\ \/ /\ Len(outQ[s]) < Cap(s)
          /\ outQ' = [outQ EXCEPT ![s] = Append(@, pump[s].data)]
          /\ pump' = [pump EXCEPT ![s].pc = "append"]
          /\ UNCHANGED << readLog, taken, lost, outputBuffer, logged >>
       \/ PumpQuit(s)
       \/ /\ Len(outQ[s]) >= Cap(s)
          /\ ~closeChan
          /\ pump' = [pump EXCEPT ![s].pc = "drop"]
          /\ UNCHANGED << outQ, readLog, taken, lost, outputBuffer, logged >>
    /\ UNCHANGED nonPumpVars

\* a full queue keeps what it has: the new chunk is the one dropped
PumpDropNewest(s) ==
    /\ pump[s].pc = "drop"
    /\ \/ /\ pump' = [pump EXCEPT ![s].pc = "append"]
          /\ UNCHANGED << outQ, readLog, taken, lost, outputBuffer, logged >>
       \/ PumpQuit(s)
    /\ UNCHANGED nonPumpVars

\* select { case <-out: (then out <- data); case <-ts.closeChan: return;
\*          default: (the chunk is dropped) }
PumpDrop(s) ==
    /\ pump[s].pc = "drop"
    /\ \/ /\ outQ[s] # << >>
          /\ outQ' = [outQ EXCEPT ![s] = Tail(@)]
          /\ pump' = [pump EXCEPT ![s].pc = "resend"]
          /\ UNCHANGED << readLog, taken, lost, outputBuffer, logged >>
       \/ PumpQuit(s)
       \/ /\ outQ[s] = << >>
          /\ ~closeChan
          /\ pump' = [pump EXCEPT ![s].pc = "append"]
          /\ UNCHANGED << outQ, readLog, taken, lost, outputBuffer, logged >>
    /\ UNCHANGED nonPumpVars

\* out <- data after the drop: a plain send, it waits while the queue is full
PumpResend(s) ==
    /\ pump[s].pc = "resend"
    /\ Len(outQ[s]) < Cap(s)
    /\ outQ' = [outQ EXCEPT ![s] = Append(@, pump[s].data)]
    /\ pump' = [pump EXCEPT ![s].pc = "append"]
    /\ UNCHANGED << readLog, taken, lost, outputBuffer, logged >>
    /\ UNCHANGED nonPumpVars

\* a scrollback that keeps its first bytes once it is full
PumpAppendKeepOldest(s) ==
    /\ pump[s].pc = "append"
    /\ LET all == outputBuffer \o Bytes(s, pump[s].data) IN
       outputBuffer' = IF Len(all) > ScrollbackMax THEN SubSeq(all, 1, ScrollbackMax) ELSE all
    /\ logged' = logged \o Bytes(s, pump[s].data)
    /\ pump' = [pump EXCEPT ![s] = [pc |-> IF @.eof THEN "done" ELSE "select",
                                    data |-> NoChunk, eof |-> @.eof]]
    /\ UNCHANGED << outQ, readLog, taken, lost >>
    /\ UNCHANGED nonPumpVars

\* ts.bufferMutex.Lock(); ts.outputBuffer = append(ts.outputBuffer, data...);
\* if len > 8192 { keep the last 8192 }; Unlock(); then return on io.EOF or
\* an error, else loop.  logged: every byte appended since the last clear.
PumpAppend(s) ==
    /\ pump[s].pc = "append"
    /\ outputBuffer' = LastN(outputBuffer \o Bytes(s, pump[s].data), ScrollbackMax)
    /\ logged' = logged \o Bytes(s, pump[s].data)
    /\ pump' = [pump EXCEPT ![s] = [pc |-> IF @.eof THEN "done" ELSE "select",
                                    data |-> NoChunk, eof |-> @.eof]]
    /\ UNCHANGED << outQ, readLog, taken, lost >>
    /\ UNCHANGED nonPumpVars

\* A receive from OutputChan by consumer k that finds a chunk: the oldest
\* chunk leaves the queue.
Receive(k) ==
    /\ outQ["stdout"] # << >>
    /\ taken' = [taken EXCEPT !["stdout"] = Append(@, Head(outQ["stdout"]))]
    /\ outQ' = [outQ EXCEPT !["stdout"] = Tail(@)]
    /\ UNCHANGED << pump, readLog, lost, outputBuffer, logged >>
    /\ UNCHANGED << regVars, closeVars, batchVars, execVars, autoVars >>

\* a read that waits for a chunk: d := <-OutputChan
ReadBlocking(k) ==
    /\ Receive(k)
    /\ got' = [out |-> Head(outQ["stdout"]), err |-> "nil"]

\* select { case d := <-OutputChan: return string(d), nil; default: return "", nil }
\* The select is one step: it receives if a chunk is queued at that instant
\* and takes default otherwise.  The empty string is NoChunk (the pump never
\* queues a chunk of no bytes: it pushes only when n > 0).
Read(k) ==
    \/ /\ Receive(k)
       /\ got' = [out |-> Head(outQ["stdout"]), err |-> "nil"]
    \/ /\ outQ["stdout"] = << >>
       /\ got' = [out |-> NoChunk, err |-> "nil"]
       /\ UNCHANGED << pumpVars, regVars, closeVars, batchVars, execVars, autoVars >>

\* TerminalSession.ReadOutput
ReadOutput == Read("ReadOutput")

\* SSHController.ReadTerminalOutput, on a registered session (OutputChan is
\* never closed, so ok is always true)
ReadTerminalOutput == Read("ReadTerminalOutput")

\* SSHController.isSessionActive: case _, ok := <-session.OutputChan: return ok
\* (the chunk received is thrown away; the channel is never closed, so ok)
isSessionActive == Receive("isSessionActive") /\ UNCHANGED got

\* ts.bufferMutex.Lock(); ts.outputBuffer = []byte{}
ClearOutputBuffer ==
    /\ outputBuffer' = << >>
    /\ logged' = << >>
    /\ lost' = [s \in Streams |-> 0]
    /\ UNCHANGED << outQ, pump, readLog, taken >>
    /\ UNCHANGED nonPumpVars

\* close(ts.closeChan), by the first call of Close
SignalClose ==
    /\ ~closeChan
    /\ closeChan' = TRUE
    /\ UNCHANGED << closer, once, ctx, stdinClose, sessionClose, stdinCloses,
                    sessionCloses, errCh, received >>
    /\ UNCHANGED << regVars, pumpVars, batchVars, execVars, autoVars, readVars >>

NextPump ==
    \/ \E s \in Streams :
        \/ PumpSelect(s)
        \/ PumpRead(s)
        \/ PumpPush(s)
        \/ PumpDrop(s)
        \/ PumpResend(s)
        \/ PumpAppend(s)
    \/ ReadOutput
    \/ ReadTerminalOutput
    \/ isSessionActive
    \/ ClearOutputBuffer
    \/ SignalClose

SpecPump == Init /\ [][NextPump]_vars

\* ---------------------------------------------------- properties of the pumps
\* the pump is between two pushes: the chunk it read last has been handled
PushDone(s) == pump[s].pc \in {"select", "reading", "append", "done"}

\* no consumer has taken a chunk of stream s and the session is not being closed
Undrained(s) == taken[s] = << >> /\ ~closeChan

\* C12: while no consumer drains, the pump is never made to wait by the queue
\* (the plain send after a drop finds room), and after each push the queue
\* holds the most recently read chunks, as many as fit, in read order, the
\* chunk read last at the end.
C12_OldestDropNeverBlocks ==
    \A s \in Streams : Undrained(s) =>
        /\ pump[s].pc = "resend" => Len(outQ[s]) < Cap(s)
        /\ PushDone(s) => outQ[s] = LastN(readLog[s], Cap(s))

C12_Witness ==
    /\ Undrained("stdout")
    /\ pump["stdout"].pc = "select"
    /\ Len(readLog["stdout"]) > OutputCap + 1
    /\ Len(outQ["stdout"]) = OutputCap

RECURSIVE IsSubseq(_, _)
\* a is b with some elements left out
IsSubseq(a, b) ==
    IF a = << >> THEN TRUE
    ELSE IF b = << >> THEN FALSE
    ELSE IF Head(a) = Head(b) THEN IsSubseq(Tail(a), Tail(b))
    ELSE IsSubseq(a, Tail(b))

\* C13: what the consumers together took out of a stream's queue, in the
\* order they took it, is a subsequence of what the pump read from the
\* stream; no chunk is taken twice.
C13_TakenIsSubsequenceOfRead ==
    \A s \in Streams :
        /\ IsSubseq(taken[s], readLog[s])
        /\ \A i \in 1..Len(taken[s]) : \A j \in 1..Len(taken[s]) :
              taken[s][i] = taken[s][j] => i = j

C13_Witness ==
    /\ Len(taken["stdout"]) >= 2
    /\ taken["stdout"][1].seq + 1 < taken["stdout"][2].seq
    /\ pump["stdout"].pc = "resend"

\* C14 as stated: the scrollback never exceeds its limit, it is the tail of
\* the bytes appended since the last clear, and every chunk a pump has read
\* was appended.
C14_ScrollbackHoldsAllRead ==
    /\ Len(outputBuffer) <= ScrollbackMax
    /\ outputBuffer = LastN(logged, ScrollbackMax)
    /\ \A s \in Streams : lost[s] = 0

\* C14, amended: ... every chunk a pump has read was appended, except the one
\* chunk a pump is holding when it sees the close signal.
C14_ScrollbackHoldsAllReadUntilClose ==
    /\ Len(outputBuffer) <= ScrollbackMax
    /\ outputBuffer = LastN(logged, ScrollbackMax)
    /\ \A s \in Streams : /\ lost[s] <= 1
                          /\ lost[s] = 1 => (closeChan /\ pump[s].pc = "done")

\* the scrollback overflowed, and it holds a byte of a stdout chunk that was
\* dropped from the queue
C14_Witness ==
    /\ Len(logged) > ScrollbackMax
    /\ Len(outputBuffer) = ScrollbackMax
    /\ ~closeChan
    /\ \E i \in 1..Len(outputBuffer) :
          /\ outputBuffer[i][1] = "stdout"
          /\ \A k \in 1..Len(outQ["stdout"]) : outQ["stdout"][k].seq # outputBuffer[i][2]
          /\ \A k \in 1..Len(taken["stdout"]) : taken["stdout"][k].seq # outputBuffer[i][2]
          /\ pump["stdout"].data.seq # outputBuffer[i][2]


\* C15: the liveness check that open_session runs on the registered session
\* (CreateTerminalSession and IsTerminalSessionActive call isSessionActive)
\* reports the session alive and leaves its output queue and its scrollback
\* as they were.
C15_LivenessCheckLeavesSession ==
    [][isSessionActive => (outQ' = outQ /\ outputBuffer' = outputBuffer)]_vars

\* ================================================= ExecuteBatchScript
\* One call of ExecuteBatchScript on a script whose ServerIDs are the distinct
\* hosts 1..NumTargets.  The script (its execution type and what its content
\* holds) is the call's input; what a host does to a command (connected or
\* not, transfer and shell commands succeeding or not) is decided when the
\* worker runs.

\* what one executor call returns: the statuses of the CommandOutputs and
\* whether the error is non-nil
Outcome(outs, err) == [outs |-> outs, err |-> err]

\* EnhancedScriptExecutor.ExecuteCommandMode that leaves out the record of the
\* failing command and reports no error
ExecuteCommandModeDropsFailed(content, cond) ==
    LET transferOk == cond.connected /\ cond.transferOk
        shellOk == cond.connected /\ cond.shellOk
        afterOps == IF content.transfers /\ transferOk THEN << "success" >> ELSE << >> IN
    IF content.transfers /\ ~transferOk
    THEN Outcome(<< >>, FALSE)
    ELSE IF content.shell
    THEN IF shellOk
         THEN Outcome(afterOps \o << "success" >>, FALSE)
         ELSE Outcome(afterOps, FALSE)
    ELSE Outcome(afterOps, FALSE)

\* EnhancedScriptExecutor.ExecuteCommandMode: the file operations first, each
\* through the sftp client (a failure appends the failed record and returns
\* an error); then all shell commands in one shared session (a failure
\* appends failed records and returns the error)
ExecuteCommandMode(content, cond) ==
    LET transferOk == cond.connected /\ cond.transferOk
        shellOk == cond.connected /\ cond.shellOk
        afterOps == IF content.transfers /\ transferOk THEN << "success" >> ELSE << >> IN
    IF content.transfers /\ ~transferOk
    THEN Outcome(<< "failed" >>, TRUE)
    ELSE IF content.shell
    THEN IF shellOk
         THEN Outcome(afterOps \o << "success" >>, FALSE)
         ELSE Outcome(afterOps \o << "failed" >>, TRUE)
    ELSE Outcome(afterOps, FALSE)

\* EnhancedScriptExecutor.ExecuteScriptMode: with file operations in the
\* script, command mode; else the whole script in one ExecCommandDirect, whose
\* failure is a failed record and a nil error
ExecuteScriptMode(content, cond) ==
    IF content.transfers
    THEN ExecuteCommandMode(content, cond)
    ELSE IF cond.connected /\ cond.shellOk
    THEN Outcome(<< "success" >>, FALSE)
    ELSE Outcome(<< "failed" >>, FALSE)

\* the worker's choice of executor; a command-mode script with no valid
\* command is an error
Execute(script, cond) ==
    IF script.type = "script"
    THEN ExecuteScriptMode(script.content, cond)
    ELSE IF ~script.content.transfers /\ ~script.content.shell
    THEN Outcome(<< >>, TRUE)
    ELSE ExecuteCommandMode(script.content, cond)

\* failed only on an executor error
FinalStatusErrorOnly(o) ==
    IF o.err THEN "failed" ELSE "success"

\* execution.Status: failed on an error or on a failed command, else success
FinalStatus(o) ==
    IF o.err THEN "failed"
    ELSE IF \E i \in 1..Len(o.outs) : o.outs[i] = "failed" THEN "failed"
    ELSE "success"

\* the texts of a CommandOutput that failed without an executor error: only
\* ExecuteScriptMode makes one, its Error a formatted message and its Output
\* that message, alone or after the command's output
FailedText == [Error |-> "script failed", Output |-> "script failed"]

\* execution.Error.  An executor error is formatted into the text; else the
\* first failed command gives its Error, or its Output, or a fixed text; a
\* last check fills in a fixed text for a failed record without one.  A
\* record that is not failed keeps the empty text.
ErrorText(o) ==
    LET status == FinalStatus(o)
        text == IF o.err THEN "exec error"
                ELSE IF \E i \in 1..Len(o.outs) : o.outs[i] = "failed"
                THEN IF FailedText.Error # "" THEN FailedText.Error
                     ELSE IF FailedText.Output # "" THEN FailedText.Output
                     ELSE "no detail"
                ELSE "" IN
    IF status = "failed" /\ text = "" THEN "no text" ELSE text

Scripts == [type : {"script", "command"},
            content : [transfers : BOOLEAN, shell : BOOLEAN]]

Conds == [connected : BOOLEAN, transferOk : BOOLEAN, shellOk : BOOLEAN]

\* script, err := sc.scriptManager.GetScriptByID(scriptID); if err != nil { return nil, err }
BatchLookup ==
    /\ batch.pc = "start"
    /\ \/ batch' = [batch EXCEPT !.pc = "returned", !.err = "error"]
       \/ \E s \in Scripts : batch' = [batch EXCEPT !.pc = "loop", !.script = s]
    /\ UNCHANGED << worker, results, semaphore, wg >>
    /\ UNCHANGED nonBatchVars

\* for _, serverID := range script.ServerIDs { wg.Add(1); go func(sid) {...}(serverID) }
BatchSpawn ==
    /\ batch.pc = "loop"
    /\ IF batch.next \in Targets
       THEN /\ wg' = wg + 1
            /\ worker' = [worker EXCEPT ![batch.next].pc = "acquire"]
            /\ batch' = [batch EXCEPT !.next = @ + 1]
       ELSE /\ batch' = [batch EXCEPT !.pc = "wait"]
            /\ UNCHANGED << wg, worker >>
    /\ UNCHANGED << results, semaphore >>
    /\ UNCHANGED nonBatchVars

\* a worker that starts without waiting for the limiter
WorkerAcquireUnbounded(h) ==
    /\ worker[h].pc = "acquire"
    /\ semaphore' = semaphore + 1
    /\ worker' = [worker EXCEPT ![h].pc = "pending"]
    /\ UNCHANGED << batch, results, wg >>
    /\ UNCHANGED nonBatchVars

\* semaphore <- struct{}{}: waits while maxConcurrent workers hold a slot
WorkerAcquire(h) ==
    /\ worker[h].pc = "acquire"
    /\ semaphore < MaxConcurrent
    /\ semaphore' = semaphore + 1
    /\ worker' = [worker EXCEPT ![h].pc = "pending"]
    /\ UNCHANGED << batch, results, wg >>
    /\ UNCHANGED nonBatchVars

\* execution := ScriptExecution{Status: "pending", ...}; results[sid] = execution
WorkerPending(h) ==
    /\ worker[h].pc = "pending"
    /\ results' = [results EXCEPT ![h] = [NoRecord EXCEPT !.status = "pending"]]
    /\ worker' = [worker EXCEPT ![h].pc = "exec"]
    /\ UNCHANGED << batch, semaphore, wg >>
    /\ UNCHANGED nonBatchVars

\* the executor runs against the host; execution.CommandOutputs, Status and
\* Error are set from its result
WorkerExec(h) ==
    /\ worker[h].pc = "exec"
    /\ \E c \in Conds :
         LET o == Execute(batch.script, c) IN
         worker' = [worker EXCEPT ![h] =
                       [pc |-> "store", cond |-> c, execErr |-> o.err,
                        execution |-> [status |-> FinalStatus(o), outs |-> o.outs,
                                       error |-> ErrorText(o)]]]
    /\ UNCHANGED << batch, results, semaphore, wg >>
    /\ UNCHANGED nonBatchVars

\* resultMutex.Lock(); results[sid] = execution; resultMutex.Unlock()
WorkerStore(h) ==
    /\ worker[h].pc = "store"
    /\ results' = [results EXCEPT ![h] = worker[h].execution]
    /\ worker' = [worker EXCEPT ![h].pc = "release"]
    /\ UNCHANGED << batch, semaphore, wg >>
    /\ UNCHANGED nonBatchVars

\* defer func() { <-semaphore }()
WorkerRelease(h) ==
    /\ worker[h].pc = "release"
    /\ semaphore' = semaphore - 1
    /\ worker' = [worker EXCEPT ![h].pc = "exit"]
    /\ UNCHANGED << batch, results, wg >>
    /\ UNCHANGED nonBatchVars

\* defer wg.Done(): the worker is finished
WorkerDone(h) ==
    /\ worker[h].pc = "exit"
    /\ wg' = wg - 1
    /\ worker' = [worker EXCEPT ![h].pc = "done"]
    /\ UNCHANGED << batch, results, semaphore >>
    /\ UNCHANGED nonBatchVars

\* a return that does not join the workers
BatchReturnNoJoin ==
    /\ batch.pc = "wait"
    /\ batch' = [batch EXCEPT !.pc = "returned", !.err = "nil"]
    /\ UNCHANGED << worker, results, semaphore, wg >>
    /\ UNCHANGED nonBatchVars

\* wg.Wait(); return results, nil
BatchReturn ==
    /\ batch.pc = "wait"
    /\ wg = 0
    /\ batch' = [batch EXCEPT !.pc = "returned", !.err = "nil"]
    /\ UNCHANGED << worker, results, semaphore, wg >>
    /\ UNCHANGED nonBatchVars

NextBatch ==
    \/ BatchLookup
    \/ BatchSpawn
    \/ BatchReturn
    \/ \E h \in Targets :
        \/ WorkerAcquire(h)
        \/ WorkerPending(h)
        \/ WorkerExec(h)
        \/ WorkerStore(h)
        \/ WorkerRelease(h)
        \/ WorkerDone(h)

SpecBatch == Init /\ [][NextBatch]_vars

\* ------------------------------------------------ properties of the batch run
\* workers between taking a slot of the limiter and giving it back
InFlight == {h \in Targets : worker[h].pc \in {"pending", "exec", "store", "release"}}

\* ExecuteBatchScript has returned its results map
BatchReturned == batch.pc = "returned" /\ batch.err = "nil"

\* C18: never more than MaxConcurrent workers run at the same time, and the
\* map returned has exactly one entry for each of the NumTargets hosts.
C18_BoundedFanOutAllEntries ==
    /\ Cardinality(InFlight) <= MaxConcurrent
    /\ BatchReturned => Cardinality({h \in Targets : results[h].status # "none"}) = NumTargets

\* the limiter is full and a worker waits for a slot
C18_Witness ==
    /\ Cardinality(InFlight) = MaxConcurrent
    /\ \E h \in Targets : worker[h].pc = "acquire"
    /\ batch.pc = "wait"

\* C19: when ExecuteBatchScript has returned, every worker has finished and
\* every record in the map has a final status.
C19_ReturnsAfterAllWorkers ==
    BatchReturned =>
        \A h \in Targets : /\ worker[h].pc = "done"
                           /\ results[h].status \in {"success", "failed"}

C19_Witness ==
    /\ BatchReturned
    /\ \E h \in Targets : results[h].status = "success"
    /\ \E h \in Targets : results[h].status = "failed"

\* the run of the script on a host in condition c meets a failure: no valid
\* command, host not connected, a failing file transfer, a failing command
Fails(script, c) ==
    \/ script.type = "command" /\ ~script.content.transfers /\ ~script.content.shell
    \/ ~c.connected
    \/ script.content.transfers /\ ~c.transferOk
    \/ /\ ~c.shellOk
       /\ script.content.shell \/ (script.type = "script" /\ ~script.content.transfers)

Sp == " "
Bs == "\\"

\* white space: the blank, the tab, the line feed, the carriage return
IsSpace(c) == c \in {Sp, "TAB", "LF", "CR"}

\* strings.TrimSpace, its two halves
RECURSIVE TrimLeft(_)
TrimLeft(s) == IF s = << >> THEN s
               ELSE IF IsSpace(Head(s)) THEN TrimLeft(Tail(s)) ELSE s

RECURSIVE TrimRight(_)
TrimRight(s) == IF s = << >> THEN s
                ELSE IF IsSpace(s[Len(s)]) THEN TrimRight(SubSeq(s, 1, Len(s) - 1)) ELSE s

TrimSpace(s) == TrimRight(TrimLeft(s))

HasPrefix(s, p) == Len(s) >= Len(p) /\ SubSeq(s, 1, Len(p)) = p

HasSuffix(s, p) == Len(s) >= Len(p) /\ SubSeq(s, Len(s) - Len(p) + 1, Len(s)) = p

TrimPrefix(s, p) == IF HasPrefix(s, p) THEN SubSeq(s, Len(p) + 1, Len(s)) ELSE s

TrimSuffix(s, p) == IF HasSuffix(s, p) THEN SubSeq(s, 1, Len(s) - Len(p)) ELSE s

\* strings.Fields: the maximal runs of non-blank symbols
RECURSIVE FieldsFrom(_, _, _)
FieldsFrom(s, cur, acc) ==
    IF s = << >>
    THEN IF cur = << >> THEN acc ELSE Append(acc, cur)
    ELSE IF IsSpace(Head(s))
    THEN FieldsFrom(Tail(s), << >>, IF cur = << >> THEN acc ELSE Append(acc, cur))
    ELSE FieldsFrom(Tail(s), Append(cur, Head(s)), acc)

Fields(s) == FieldsFrom(s, << >>, << >>)

\* strings.LastIndex for a one-symbol separator, as a position from 1;
\* 0 when the separator does not occur (Go's -1)
LastIndex(s, c) ==
    IF \E i \in 1..Len(s) : s[i] = c
    THEN CHOOSE i \in 1..Len(s) : s[i] = c /\ \A j \in (i + 1)..Len(s) : s[j] # c
    ELSE 0

\* the comment test of ParseCommands: the trimmed line starts with # or //
IsComment(line) == HasPrefix(line, << "#" >>) \/ HasPrefix(line, << "/", "/" >>)

\* the scanner loop of ScriptParser.ParseCommands from line i on, with the
\* builder currentCommand and the commands found so far
RECURSIVE ScanLoopDropUnterminated(_, _, _, _)
RECURSIVE ScanLoop(_, _, _, _)

\* a scanner loop that forgets a continuation the input leaves open
ScanLoopDropUnterminated(text, i, currentCommand, commands) ==
    IF i > Len(text)
    THEN commands
    ELSE LET line == TrimSpace(text[i]) IN
         IF line = << >>
         THEN ScanLoopDropUnterminated(text, i + 1, currentCommand, commands)
         ELSE IF IsComment(line)
         THEN ScanLoopDropUnterminated(text, i + 1, currentCommand, commands)
         ELSE IF HasSuffix(line, << Bs >>)
         THEN ScanLoopDropUnterminated(text, i + 1,
                       currentCommand \o TrimSuffix(line, << Bs >>) \o << Sp >>, commands)
         ELSE ScanLoopDropUnterminated(text, i + 1, << >>,
                       Append(commands, TrimSpace(currentCommand \o line)))

ScanLoop(text, i, currentCommand, commands) ==
    IF i > Len(text)
    THEN IF Len(currentCommand) > 0 /\ TrimSpace(currentCommand) # << >>
         THEN Append(commands, TrimSpace(currentCommand))
         ELSE commands
    ELSE LET line == TrimSpace(text[i]) IN
         IF line = << >>
         THEN ScanLoop(text, i + 1, currentCommand, commands)
         ELSE IF IsComment(line)
         THEN ScanLoop(text, i + 1, currentCommand, commands)
         ELSE IF HasSuffix(line, << Bs >>)
         THEN ScanLoop(text, i + 1,
                       currentCommand \o TrimSuffix(line, << Bs >>) \o << Sp >>, commands)
         ELSE LET command == TrimSpace(currentCommand \o line) IN
              IF command # << >>
              THEN ScanLoop(text, i + 1, << >>, Append(commands, command))
              ELSE ScanLoop(text, i + 1, currentCommand \o line, commands)

\* ScriptParser.ParseCommands
ScriptParserParseCommands(text) ==
    IF text = << >> THEN << >> ELSE ScanLoop(text, 1, << >>, << >>)

\* a classification that takes the keyword alone for a file transfer
ParsedCommandKeywordOnly(cmd) ==
    LET trimmedCmd == TrimSpace(cmd) IN
    IF HasPrefix(trimmedCmd, << "$upload" >>)
    THEN [CommandType |-> "upload",
          Command |-> TrimSpace(TrimPrefix(trimmedCmd, << "$upload" >>))]
    ELSE IF HasPrefix(trimmedCmd, << "$download" >>)
    THEN [CommandType |-> "download",
          Command |-> TrimSpace(TrimPrefix(trimmedCmd, << "$download" >>))]
    ELSE [CommandType |-> "shell", Command |-> cmd]

\* the classification of one raw command, shared by ParseCommands and
\* preprocessScriptForFileOperations
ParsedCommand(cmd) ==
    LET trimmedCmd == TrimSpace(cmd) IN
    IF HasPrefix(trimmedCmd, << "$upload", Sp >>)
    THEN [CommandType |-> "upload",
          Command |-> TrimSpace(TrimPrefix(trimmedCmd, << "$upload" >>))]
    ELSE IF HasPrefix(trimmedCmd, << "$download", Sp >>)
    THEN [CommandType |-> "download",
          Command |-> TrimSpace(TrimPrefix(trimmedCmd, << "$download" >>))]
    ELSE [CommandType |-> "shell", Command |-> cmd]

\* EnhancedScriptExecutor.ParseCommands
ParseCommands(text) ==
    LET rawCommands == ScriptParserParseCommands(text) IN
    [i \in 1..Len(rawCommands) |-> ParsedCommand(rawCommands[i])]


\* the lines scripts are made of: blank, comments, commands, a command with
\* blanks around it and the suffix $ne, continuations, file transfers with two
\* arguments or fewer
Lines == { << Sp >>,
           << "#", "a" >>,
           << "/", "/", "a" >>,
           << "a" >>,
           << Sp, "b", Sp, "$ne", Sp >>,
           << "a", Sp, Bs >>,
           << Bs >>,
           << "/", "a" >>,
           << Sp, "$upload", Sp, "d", "/", "f", Sp, Sp, "r" >>,
           << "$upload", Sp, "f", Sp, "r", "/" >>,
           << "$upload", Sp, "f" >>,
           << "$download", Sp, "r", Sp, "l" >>,
           << "$upload", Sp >> }

Texts == UNION { [1..n -> Lines] : n \in 0..MaxLines }

\* a models.CommandOutput: the command, its status, where its output comes
\* from ("result": the executor's output, "error": a copy of the error text,
\* "message": a text the executor composes) and whether Error is set
CommandOutput(command, status, output, error) ==
    [Command |-> command, Status |-> status, Output |-> output, Error |-> error]

\* what a handler returns with the calls it made on the CommandExecutor
Handled(command, made, out, err) ==
    [command |-> command, calls |-> made, out |-> out, err |-> err]

\* handleUploadCommand
handleUploadCommand(command, ensureOk, transferOk) ==
    LET parts == Fields(command) IN
    IF Len(parts) < 2
    THEN Handled(command, << >>, "none", TRUE)
    ELSE LET localPath == parts[1]
             remoteDir == parts[2]
             localFileName ==
                 IF LastIndex(localPath, "/") # 0
                 THEN SubSeq(localPath, LastIndex(localPath, "/") + 1, Len(localPath))
                 ELSE IF LastIndex(localPath, Bs) # 0
                 THEN SubSeq(localPath, LastIndex(localPath, Bs) + 1, Len(localPath))
                 ELSE localPath
             remotePath ==
                 (IF HasSuffix(remoteDir, << "/" >>) THEN remoteDir ELSE remoteDir \o << "/" >>)
                 \o localFileName
             ensure == [op |-> "EnsureSFTPClient", ok |-> ensureOk]
             upload == [op |-> "ExecUploadFile", from |-> localPath, to |-> remotePath,
                        ok |-> transferOk] IN
         IF ~ensureOk
         THEN Handled(command, << ensure >>, "none", TRUE)
         ELSE IF ~transferOk
         THEN Handled(command, << ensure, upload >>, "none", TRUE)
         ELSE Handled(command, << ensure, upload >>, "message", FALSE)

\* handleDownloadCommand
handleDownloadCommand(command, ensureOk, transferOk) ==
    LET parts == Fields(command) IN
    IF Len(parts) < 2
    THEN Handled(command, << >>, "none", TRUE)
    ELSE LET remotePath == parts[1]
             localPath == parts[2]
             ensure == [op |-> "EnsureSFTPClient", ok |-> ensureOk]
             download == [op |-> "ExecDownloadFile", from |-> remotePath, to |-> localPath,
                          ok |-> transferOk] IN
         IF ~ensureOk
         THEN Handled(command, << ensure >>, "none", TRUE)
         ELSE IF ~transferOk
         THEN Handled(command, << ensure, download >>, "none", TRUE)
         ELSE Handled(command, << ensure, download >>, "message", FALSE)

\* what one combined invocation of n commands can do on the host, command by
\* command: "ok" (status 0), "fail" (another status; the shell goes on to
\* the next command of the list), "abort" (the invocation ends here: the
\* shell is terminated or the transport lost), "notrun" (never started: an
\* earlier command ended the invocation, or no session could be opened)
SharedRuns(n) ==
    { st \in [1..n -> {"ok", "fail", "abort", "notrun"}] :
        \A i \in 1..n : st[i] \in {"abort", "notrun"} =>
                            \A j \in (i + 1)..n : st[j] = "notrun" }

\* SSHConnection.ExecuteCommandsWithSharedSession returns an error: no
\* session, or CombinedOutput's error.  The script is the commands joined
\* with ";", each followed by an echo of the separator, so its exit status
\* is that of the last echo when the shell runs to the end
SharedErr(st) == \E i \in DOMAIN st : st[i] \in {"abort", "notrun"}

\* the controller hands a script to the executor in one of its two modes
ExecLoad ==
    /\ run.pc = "idle"
    /\ \E mode \in {"command", "script"}, text \in Texts :
          run' = [run EXCEPT !.pc = "loaded", !.mode = mode, !.text = text]
    /\ UNCHANGED hostCalls
    /\ UNCHANGED nonExecVars

\* command mode: parsedCommands := sc.enhancedExecutor.ParseCommands(script.Content)
ExecParse ==
    /\ run.pc = "loaded"
    /\ run.mode = "command"
    /\ run' = [run EXCEPT !.pc = "mode",
                          !.raw = ScriptParserParseCommands(run.text),
                          !.commands = ParseCommands(run.text)]
    /\ UNCHANGED hostCalls
    /\ UNCHANGED nonExecVars

\* preprocessScriptForFileOperations: mixedCommands when the script holds a
\* file operation, else no command at all
preprocessScriptForFileOperations(text) ==
    LET commands == ScriptParserParseCommands(text)
        mixedCommands == [i \in 1..Len(commands) |-> ParsedCommand(commands[i])]
        hasFileOperations ==
            \E i \in 1..Len(mixedCommands) : mixedCommands[i].CommandType # "shell" IN
    IF hasFileOperations THEN mixedCommands ELSE << >>

\* ExecuteScriptMode up to its choice between the two ways to run the script
ExecPreprocess ==
    /\ run.pc = "loaded"
    /\ run.mode = "script"
    /\ LET fileOperations == preprocessScriptForFileOperations(run.text) IN
       run' = [run EXCEPT !.pc = IF Len(fileOperations) > 0 THEN "mode" ELSE "direct",
                          !.raw = ScriptParserParseCommands(run.text),
                          !.commands = fileOperations]
    /\ UNCHANGED hostCalls
    /\ UNCHANGED nonExecVars

\* ExecuteScriptMode that returns the failure of ExecCommandDirect as its
\* error, with no record
ExecDirectFailureAsError ==
    /\ run.pc = "direct"
    /\ \E ok \in BOOLEAN :
          /\ hostCalls' = Append(hostCalls, [op |-> "ExecCommandDirect",
                                             command |-> run.text, ok |-> ok])
          /\ run' = [run EXCEPT
                 !.pc = "returned",
                 !.outputs = IF ok THEN << CommandOutput(<< "[script]" >>, "success",
                                                         "result", FALSE) >>
                             ELSE << >>,
                 !.err = ~ok]
    /\ UNCHANGED nonExecVars

\* ExecuteScriptMode without file operations: one ExecCommandDirect of the
\* script as it came, one record, a nil error
ExecDirect ==
    /\ run.pc = "direct"
    /\ \E ok \in BOOLEAN :
          /\ hostCalls' = Append(hostCalls, [op |-> "ExecCommandDirect",
                                             command |-> run.text, ok |-> ok])
          /\ run' = [run EXCEPT
                 !.pc = "returned",
                 !.outputs = << CommandOutput(<< "[script]" >>,
                                              IF ok THEN "success" ELSE "failed",
                                              IF ok THEN "result" ELSE "error", ~ok) >>,
                 !.err = FALSE]
    /\ UNCHANGED nonExecVars

IsFileOp(c) == c.CommandType = "upload" \/ c.CommandType = "download"
IsShell(c) == c.CommandType = "shell"

\* ExecuteCommandMode, first loop: the commands are split into the file
\* operations and the shell commands
ExecSplit ==
    /\ run.pc = "mode"
    /\ LET shells == SelectSeq(run.commands, IsShell) IN
       run' = [run EXCEPT !.pc = "files",
                          !.fileOps = SelectSeq(run.commands, IsFileOp),
                          !.shellCommands = [i \in 1..Len(shells) |-> shells[i].Command]]
    /\ UNCHANGED hostCalls
    /\ UNCHANGED nonExecVars

\* ExecuteCommandMode, second loop, one file operation: a failure appends the
\* failed record and returns an error
ExecFileOp ==
    /\ run.pc = "files"
    /\ Len(run.handled) < Len(run.fileOps)
    /\ \E ensureOk \in BOOLEAN, transferOk \in BOOLEAN :
          LET parsedCmd == run.fileOps[Len(run.handled) + 1]
              r == IF parsedCmd.CommandType = "upload"
                   THEN handleUploadCommand(parsedCmd.Command, ensureOk, transferOk)
                   ELSE handleDownloadCommand(parsedCmd.Command, ensureOk, transferOk) IN
          /\ hostCalls' = hostCalls \o r.calls
          /\ run' = [run EXCEPT
                 !.handled = Append(@, [r EXCEPT !.command = parsedCmd]),
                 !.outputs = Append(@, IF r.err
                                       THEN CommandOutput(parsedCmd.Command, "failed", "error", TRUE)
                                       ELSE CommandOutput(parsedCmd.Command, "success", r.out, FALSE)),
                 !.err = r.err,
                 !.pc = IF r.err THEN "returned" ELSE "files"]
    /\ UNCHANGED nonExecVars

\* ExecuteCommandMode, the shell commands: all of them in one
\* ExecCommandsInSharedSession; its error makes every record failed and is
\* returned, no error makes every record a success
ExecSharedSession ==
    /\ run.pc = "files"
    /\ Len(run.handled) = Len(run.fileOps)
    /\ Len(run.shellCommands) > 0
    /\ \E st \in SharedRuns(Len(run.shellCommands)) :
          LET n == Len(run.shellCommands)
              err == SharedErr(st) IN
          /\ hostCalls' = Append(hostCalls, [op |-> "ExecCommandsInSharedSession",
                                             commands |-> run.shellCommands, st |-> st])
          /\ run' = [run EXCEPT
                 !.pc = "returned",
                 !.err = err,
                 !.outputs = @ \o [i \in 1..n |->
                        IF err
                        THEN CommandOutput(run.shellCommands[i], "failed",
                                           IF st[1] = "notrun" THEN "error" ELSE "result", TRUE)
                        ELSE CommandOutput(run.shellCommands[i], "success", "result", FALSE)]]
    /\ UNCHANGED nonExecVars

\* ExecuteCommandMode with no shell command: return commandOutputs, nil
ExecReturn ==
    /\ run.pc = "files"
    /\ Len(run.handled) = Len(run.fileOps)
    /\ Len(run.shellCommands) = 0
    /\ run' = [run EXCEPT !.pc = "returned", !.err = FALSE]
    /\ UNCHANGED hostCalls
    /\ UNCHANGED nonExecVars

NextExec ==
    \/ ExecLoad
    \/ ExecParse
    \/ ExecPreprocess
    \/ ExecDirect
    \/ ExecSplit
    \/ ExecFileOp
    \/ ExecSharedSession
    \/ ExecReturn

SpecExec == Init /\ [][NextExec]_vars


\* ---- what happened to each command of the list given to ExecuteCommandMode

ExecReturned == run.pc = "returned"

\* the run went through ExecuteCommandMode (called for a command-mode script,
\* or by ExecuteScriptMode for a script with file operations)
RanCommandMode == ExecReturned /\ run.commands # << >>

\* the place of command p among the commands of its class (file operations,
\* shell commands): its index in fileOps or in shellCommands
Rank(p) ==
    Cardinality({q \in 1..p : IsFileOp(run.commands[q]) = IsFileOp(run.commands[p])})

\* the statuses the host gave the shell commands, if the shared session ran
SharedStatuses ==
    IF \E c \in 1..Len(hostCalls) : hostCalls[c].op = "ExecCommandsInSharedSession"
    THEN hostCalls[CHOOSE c \in 1..Len(hostCalls) :
                       hostCalls[c].op = "ExecCommandsInSharedSession"].st
    ELSE << >>

\* what became of command p: "ok", "fail" (it failed), "notrun"
Fate(p) ==
    IF IsFileOp(run.commands[p])
    THEN IF Rank(p) > Len(run.handled) THEN "notrun"
         ELSE IF run.handled[Rank(p)].err THEN "fail" ELSE "ok"
    ELSE IF Rank(p) > Len(SharedStatuses) THEN "notrun"
         ELSE IF SharedStatuses[Rank(p)] = "abort" THEN "fail"
         ELSE SharedStatuses[Rank(p)]

FailedCommands == {p \in 1..Len(run.commands) : Fate(p) = "fail"}

FirstFailed == CHOOSE k \in FailedCommands : \A j \in FailedCommands : k <= j

\* C21: a run of ExecuteCommandMode in which command k of the list is the
\* first to fail returns one record per command, in the list's order:
\* success before k, failed at k, skipped with an empty output after k, and
\* no command after k has been run.
C21_FirstFailureSkipsRest ==
    (RanCommandMode /\ FailedCommands # {}) =>
        /\ Len(run.outputs) = Len(run.commands)
        /\ \A p \in 1..Len(run.commands) : p <= Len(run.outputs) =>
              /\ run.outputs[p].Command = run.commands[p].Command
              /\ p < FirstFailed => run.outputs[p].Status = "success"
              /\ p = FirstFailed => run.outputs[p].Status = "failed"
              /\ p > FirstFailed => /\ run.outputs[p].Status = "skipped"
                                    /\ run.outputs[p].Output = "none"
                                    /\ Fate(p) = "notrun"


\* the list holds shell commands only
OnlyShell == \A p \in 1..Len(run.commands) : IsShell(run.commands[p])

\* command p was written with the suffix $ne
MarkedContinue(p) == HasSuffix(TrimSpace(run.commands[p].Command), << "$ne" >>)

\* the commands of the list that reached the CommandExecutor
PassedToExecutor ==
    {p \in 1..Len(run.commands) :
        \E c \in 1..Len(hostCalls) :
            /\ hostCalls[c].op = "ExecCommandsInSharedSession"
            /\ Rank(p) <= Len(hostCalls[c].commands)}

\* C22: ExecuteCommands on shell commands, none marked $ne, of which command
\* k is the first to fail, returns a nil error and exactly k records, k-1
\* successes and one failed; the commands after k are not passed to the
\* executor.
C22_StopsAtFirstFailure ==
    (/\ RanCommandMode
     /\ OnlyShell
     /\ FailedCommands # {}
     /\ \A p \in 1..Len(run.commands) : ~MarkedContinue(p)) =>
        /\ ~run.err
        /\ Len(run.outputs) = FirstFailed
        /\ \A p \in 1..Len(run.outputs) :
              run.outputs[p].Status = IF p < FirstFailed THEN "success" ELSE "failed"
        /\ \A p \in PassedToExecutor : p <= FirstFailed

\* C23: ExecuteCommands on shell commands whose failing commands are all
\* marked $ne returns a nil error and one record per command, failed for the
\* commands that failed and success for the others, every command having
\* been run.
C23_ContinueOnErrorRunsAll ==
    (/\ RanCommandMode
     /\ OnlyShell
     /\ FailedCommands # {}
     /\ \A p \in FailedCommands : MarkedContinue(p)) =>
        /\ ~run.err
        /\ Len(run.outputs) = Len(run.commands)
        /\ \A p \in 1..Len(run.outputs) :
              /\ Fate(p) # "notrun"
              /\ run.outputs[p].Status = IF Fate(p) = "fail" THEN "failed" ELSE "success"


\* the kinds of the commands performed on the host, in the order in which
\* the host performed them: one entry per transfer call, one per command of a
\* shared invocation
RECURSIVE PerformedTypes(_)
PerformedTypes(cs) ==
    IF cs = << >> THEN << >>
    ELSE LET c == Head(cs) IN
         (IF c.op = "ExecUploadFile" THEN << "upload" >>
          ELSE IF c.op = "ExecDownloadFile" THEN << "download" >>
          ELSE IF c.op = "ExecCommandsInSharedSession"
          THEN [i \in 1..Len(c.commands) |-> "shell"]
          ELSE << >>)
         \o PerformedTypes(Tail(cs))

\* ExecuteScriptMode took the script to ExecuteCommandMode: it holds a file
\* operation
ScriptModeWithFileOps == ExecReturned /\ run.mode = "script" /\ run.commands # << >>

\* C24: ExecuteScriptMode on a script with a file transfer among its lines,
\* every command of which succeeds, returns one record per parsed line, in
\* the script's order, and the host performs the transfers and the shell
\* commands in the script's order.
C24_ScriptModeKeepsScriptOrder ==
    (ScriptModeWithFileOps /\ \A p \in 1..Len(run.commands) : Fate(p) = "ok") =>
        /\ Len(run.outputs) = Len(run.commands)
        /\ \A p \in 1..Len(run.commands) : p <= Len(run.outputs) =>
              run.outputs[p].Command = run.commands[p].Command
        /\ PerformedTypes(hostCalls) = [p \in 1..Len(run.commands) |-> run.commands[p].CommandType]

\* C24, the part of it the executor keeps: such a run went through
\* ExecuteCommandMode and returns one record per parsed line
C24_ScriptModeOneRecordPerLine ==
    (ScriptModeWithFileOps /\ \A p \in 1..Len(run.commands) : Fate(p) = "ok") =>
        /\ run.commands = ParseCommands(run.text)
        /\ Len(run.outputs) = Len(run.commands)
        /\ \A c \in 1..Len(hostCalls) : hostCalls[c].op # "ExecCommandDirect"


\* no parsed line of the script is a file transfer
NoDirective(text) ==
    \A i \in 1..Len(ParseCommands(text)) : ParseCommands(text)[i].CommandType = "shell"

\* C25: ExecuteScriptMode on a script without file transfer calls the
\* executor once, ExecCommandDirect with the script as it came, and returns
\* a nil error and one record: success, or failed with its Error set when
\* the call failed.
C25_ScriptModeOneInvocation ==
    (ExecReturned /\ run.mode = "script" /\ NoDirective(run.text)) =>
        /\ Len(hostCalls) = 1
        /\ hostCalls[1].op = "ExecCommandDirect"
        /\ hostCalls[1].command = run.text
        /\ ~run.err
        /\ Len(run.outputs) = 1
        /\ run.outputs[1].Status = IF hostCalls[1].ok THEN "success" ELSE "failed"
        /\ run.outputs[1].Status = "failed" => run.outputs[1].Error

\* a script of comment, continuation and command whose run on the host failed
C25_Witness ==
    /\ ExecReturned
    /\ run.mode = "script"
    /\ NoDirective(run.text)
    /\ Len(run.text) = MaxLines
    /\ \E i \in 1..Len(run.text) : IsComment(run.text[i])
    /\ \E i \in 1..Len(run.text) : HasSuffix(run.text[i], << Bs >>)
    /\ run.outputs[1].Status = "failed"


\* ---- the logical lines of a script, stated on the text alone

\* a line the parser does not skip
KeptLine(l) == l # << >> /\ ~IsComment(l)

\* the lines of the script that are neither blank nor comments, trimmed
Kept(text) == SelectSeq([i \in 1..Len(text) |-> TrimSpace(text[i])], KeptLine)

Continues(l) == HasSuffix(l, << Bs >>)

\* a logical line ends at a kept line with no backslash at its end, or at
\* the last kept line
Ends(K) == {e \in 1..Len(K) : ~Continues(K[e]) \/ e = Len(K)}

\* it starts after the end before it
StartOf(K, e) ==
    LET before == {d \in Ends(K) : d < e} IN
    IF before = {} THEN 1 ELSE 1 + CHOOSE d \in before : \A c \in before : c <= d

\* the kept lines a..b joined: a continuation gives up its backslash for a blank
RECURSIVE Joined(_, _, _)
Joined(K, a, b) ==
    IF a > b THEN << >>
    ELSE (IF Continues(K[a]) THEN SubSeq(K[a], 1, Len(K[a]) - 1) \o << Sp >> ELSE K[a])
         \o Joined(K, a + 1, b)

LogicalLine(K, e) == TrimSpace(Joined(K, StartOf(K, e), e))

\* the logical lines with something in them, by their ends
CommandEnds(K) == {e \in Ends(K) : LogicalLine(K, e) # << >>}

\* ParseCommands has been applied to the script
Parsed == run.pc \notin {"idle", "loaded"}

\* C26: ScriptParser.ParseCommands returns the script's logical lines, one
\* command each, in script order: blank lines and lines starting with # or
\* // are left out, a line ending in a backslash is joined with the kept
\* lines after it, a continuation the input leaves open is a command too,
\* and no command is empty.
C26_OneCommandPerLogicalLine ==
    Parsed =>
        LET K == Kept(run.text) IN
        /\ Len(run.raw) = Cardinality(CommandEnds(K))
        /\ \A e \in CommandEnds(K) :
              run.raw[Cardinality({d \in CommandEnds(K) : d <= e})] = LogicalLine(K, e)
        /\ \A i \in 1..Len(run.raw) : run.raw[i] # << >>
        /\ (K # << >> /\ Continues(K[Len(K)]) /\ LogicalLine(K, Len(K)) # << >>) =>
              run.raw[Len(run.raw)] = LogicalLine(K, Len(K))

\* a continuation, a comment inside it, and the continuation left open at
\* the end of the input: one command
C26_Witness ==
    /\ Parsed
    /\ run.text = << << "a", Sp, Bs >>, << "#", "a" >>, << "a", Sp, Bs >> >>
    /\ run.raw = << << "a", Sp, Sp, "a" >> >>


\* the raw command, trimmed, starts with the keyword kw and a blank
Directive(raw, kw) ==
    LET t == TrimSpace(raw) IN Len(t) >= 2 /\ t[1] = kw /\ t[2] = Sp

\* what follows the keyword, trimmed
Remainder(raw) == TrimSpace(Tail(TrimSpace(raw)))

\* C27: EnhancedScriptExecutor.ParseCommands gives one parsed command per raw
\* command of the parser, in the same order: upload exactly for "$upload "
\* and download exactly for "$download " at the start of the trimmed text,
\* the command being what follows the keyword, trimmed; shell for the rest.
C27_ClassifiesByPrefix ==
    (Parsed /\ run.mode = "command") =>
        /\ Len(run.commands) = Len(run.raw)
        /\ \A i \in 1..Len(run.raw) : i <= Len(run.commands) =>
              /\ run.commands[i].CommandType = "upload" <=> Directive(run.raw[i], "$upload")
              /\ run.commands[i].CommandType = "download" <=> Directive(run.raw[i], "$download")
              /\ run.commands[i].CommandType \in {"upload", "download", "shell"}
              /\ run.commands[i].CommandType # "shell" =>
                    run.commands[i].Command = Remainder(run.raw[i])
              /\ run.commands[i].CommandType = "shell" =>
                    run.commands[i].Command = run.raw[i]

\* an upload written with blanks around it, the keyword alone, a download
C27_Witness ==
    /\ Parsed
    /\ run.mode = "command"
    /\ run.text = << << Sp, "$upload", Sp, "d", "/", "f", Sp, Sp, "r" >>,
                     << "$upload", Sp >>,
                     << "$download", Sp, "r", Sp, "l" >> >>
    /\ run.commands = << [CommandType |-> "upload", Command |-> << "d", "/", "f", Sp, Sp, "r" >>],
                         [CommandType |-> "shell", Command |-> << "$upload" >>],
                         [CommandType |-> "download", Command |-> << "r", Sp, "l" >>] >>


\* the base name of a path: what follows its last "/", or a backslash when
\* it has no "/"
BaseName(path) ==
    IF \E i \in 1..Len(path) : path[i] = "/"
    THEN SubSeq(path, 1 + CHOOSE i \in 1..Len(path) :
                            path[i] = "/" /\ \A j \in (i + 1)..Len(path) : path[j] # "/",
                Len(path))
    ELSE IF \E i \in 1..Len(path) : path[i] = Bs
    THEN SubSeq(path, 1 + CHOOSE i \in 1..Len(path) :
                            path[i] = Bs /\ \A j \in (i + 1)..Len(path) : path[j] # Bs,
                Len(path))
    ELSE path

\* the calls a handler is to make for the arguments "A B" and what it is to
\* return, the transfer being from A to dest: nothing and an error with fewer
\* than two arguments; EnsureSFTPClient alone and an error when that fails;
\* else EnsureSFTPClient and then the one transfer, whose failure is an error
TransfersOnce(h, op, dest) ==
    LET parts == Fields(h.command.Command) IN
    IF Len(parts) < 2
    THEN h.calls = << >> /\ h.err
    ELSE /\ Len(h.calls) \in {1, 2}
         /\ h.calls[1].op = "EnsureSFTPClient"
         /\ ~h.calls[1].ok => Len(h.calls) = 1 /\ h.err
         /\ h.calls[1].ok =>
               /\ Len(h.calls) = 2
               /\ h.calls[2].op = op
               /\ h.calls[2].from = parts[1]
               /\ h.calls[2].to = dest
               /\ h.err = ~h.calls[2].ok

UploadDest(h) ==
    LET parts == Fields(h.command.Command) IN
    (IF parts[2][Len(parts[2])] = "/" THEN parts[2] ELSE parts[2] \o << "/" >>)
    \o BaseName(parts[1])

DownloadDest(h) == Fields(h.command.Command)[2]

\* C28: handleUploadCommand "L R" ensures the file-transfer client, then
\* makes one upload of L to R, "/" added when R does not end in it, plus the
\* base name of L, and returns the executor's upload result;
\* handleDownloadCommand ensures the client and makes one download, both
\* paths as given; with fewer than two arguments or a failed
\* EnsureSFTPClient there is no transfer and an error is returned.
C28_HandlersReturnExecutorResult ==
    \A i \in 1..Len(run.handled) :
        LET h == run.handled[i] IN
        /\ h.command.CommandType = "upload" =>
              /\ TransfersOnce(h, "ExecUploadFile", UploadDest(h))
              /\ ~h.err => h.out = "result"
        /\ h.command.CommandType = "download" =>
              TransfersOnce(h, "ExecDownloadFile", DownloadDest(h))

\* C28 without the value returned on success: the calls the handlers make
\* and the errors they return
C28_HandlersEnsureThenTransferOnce ==
    \A i \in 1..Len(run.handled) :
        LET h == run.handled[i] IN
        /\ h.command.CommandType = "upload" =>
              TransfersOnce(h, "ExecUploadFile", UploadDest(h))
        /\ h.command.CommandType = "download" =>
              TransfersOnce(h, "ExecDownloadFile", DownloadDest(h))
        /\ ~h.err => h.out = "message"


\* ================================================= GetAutoCompleteSuggestions
\* One call of GetAutoCompleteSuggestions.  What the shell has written to the
\* scrollback when the call reads it is the environment's choice.  In the
\* scrollback "BEL" is the bell, "ESC" one whole escape sequence, "LF" and
\* "CR" the line ends, "cnf" the text "command not found".

Contains(s, sub) ==
    \E i \in 1..(Len(s) - Len(sub) + 1) : SubSeq(s, i, i + Len(sub) - 1) = sub

\* strings.Split on a one-symbol separator
RECURSIVE SplitFrom(_, _, _, _)
SplitFrom(s, sep, cur, acc) ==
    IF s = << >> THEN Append(acc, cur)
    ELSE IF Head(s) = sep THEN SplitFrom(Tail(s), sep, << >>, Append(acc, cur))
    ELSE SplitFrom(Tail(s), sep, Append(cur, Head(s)), acc)

Split(s, sep) == SplitFrom(s, sep, << >>, << >>)

\* strings.Join with a blank
RECURSIVE JoinWords(_)
JoinWords(parts) ==
    IF parts = << >> THEN << >>
    ELSE IF Len(parts) = 1 THEN parts[1]
    ELSE parts[1] \o << Sp >> \o JoinWords(Tail(parts))

Printable(c) == c \notin {"BEL", "CR", "ESC"}

removeANSIEscapeSequences(text) == SelectSeq(text, Printable)

RECURSIVE removeDuplicatesFrom(_, _)
removeDuplicatesFrom(slice, result) ==
    IF slice = << >> THEN result
    ELSE IF \E i \in 1..Len(result) : result[i] = Head(slice)
    THEN removeDuplicatesFrom(Tail(slice), result)
    ELSE removeDuplicatesFrom(Tail(slice), Append(result, Head(slice)))

removeDuplicates(slice) == removeDuplicatesFrom(slice, << >>)

\* a line ParseAutoCompleteSuggestions passes over: an error message, a
\* prompt, the echo of the command with a bell
SkippedLine(line, partialCommand) ==
    \/ Contains(line, << "cnf" >>)
    \/ Contains(line, << "$", Sp >>)
    \/ Contains(line, << "#", Sp >>)
    \/ HasPrefix(line, partialCommand) /\ Contains(line, << "BEL" >>)

\* the shell's echo of the command with its completion, in one word
EchoLine(line, partialCommand) ==
    /\ HasPrefix(line, partialCommand)
    /\ Len(line) > Len(partialCommand)
    /\ ~Contains(line, << Sp >>) \/ line = partialCommand

\* the suggestions one line gives
LineSuggestions(line, lastArg, commandPrefix) ==
    LET Completes(word) == HasPrefix(word, lastArg)
        IsCommand(word) == ~Contains(word, << "/" >>)
        words == Fields(line) IN
    IF lastArg # << >>
    THEN LET hits == SelectSeq(words, Completes) IN
         [i \in 1..Len(hits) |-> commandPrefix \o hits[i]]
    ELSE SelectSeq(words, IsCommand)

\* the first loop of ParseAutoCompleteSuggestions, from line i down to the first
RECURSIVE FirstPass(_, _, _, _, _)
FirstPass(lines, i, partialCommand, lastArg, commandPrefix) ==
    IF i = 0 THEN << >>
    ELSE LET line == TrimSpace(lines[i])
             rest == FirstPass(lines, i - 1, partialCommand, lastArg, commandPrefix) IN
         IF line = << >> \/ SkippedLine(line, partialCommand) \/ EchoLine(line, partialCommand)
         THEN rest
         ELSE LineSuggestions(line, lastArg, commandPrefix) \o rest

\* its second loop: paths taken from the lines that hold a "/"
RECURSIVE SecondPass(_, _, _, _)
SecondPass(lines, i, lastArg, commandPrefix) ==
    IF i = 0 THEN << >>
    ELSE LET line == TrimSpace(lines[i])
             rest == SecondPass(lines, i - 1, lastArg, commandPrefix) IN
         IF /\ line # << >>
            /\ ~Contains(line, << "$", Sp >>)
            /\ ~Contains(line, << "#", Sp >>)
            /\ Contains(line, << "/" >>)
         THEN LineSuggestions(line, lastArg, commandPrefix) \o rest
         ELSE rest

\* TerminalSession.ParseAutoCompleteSuggestions
ParseAutoCompleteSuggestions(partialCommand, output) ==
    IF output = << >> THEN << >>
    ELSE LET lines == Split(removeANSIEscapeSequences(output), "LF")
             parts == Fields(partialCommand)
             lastArg == IF Len(parts) > 0 THEN parts[Len(parts)] ELSE << >>
             commandPrefix ==
                 IF Len(parts) > 1
                 THEN JoinWords(SubSeq(parts, 1, Len(parts) - 1)) \o << Sp >>
                 ELSE << >>
             suggestions == FirstPass(lines, Len(lines), partialCommand, lastArg, commandPrefix) IN
         IF Len(suggestions) = 0 /\ lastArg # << >>
         THEN removeDuplicates(SecondPass(lines, Len(lines), lastArg, commandPrefix))
         ELSE removeDuplicates(suggestions)

\* what the user has typed
Partials == { << "l" >>, << "c", Sp, "/", "e" >>, << >> }

\* what the scrollback can hold when it is read: nothing; one symbol; two
\* bells; a completion made in place; a list of commands and the prompt; a
\* list of paths and the prompt; an error and the prompt
Outputs == { << >>,
             << "l" >>,
             << "BEL", "BEL" >>,
             << "l", "s", Sp >>,
             << "l", "BEL", "CR", "LF", "l", "s", Sp, Sp, "l", "n", "CR", "LF", "u", "$", Sp, "l" >>,
             << "LF", "/", "e", "t", "c", "/", Sp, "/", "e", "x", "LF", "u", "$", Sp, "c", Sp, "/", "e" >>,
             << "LF", "cnf", "LF", "u", "#", Sp >> }

Did(op, arg) == [op |-> op, arg |-> arg]

\* sc.terminalSessions[serverID]: without a session the call returns an error
AutoCall ==
    /\ ac.pc = "idle"
    /\ \E p \in Partials, exists \in BOOLEAN :
          ac' = [ac EXCEPT !.partialCommand = p,
                           !.pc = IF exists THEN "clear" ELSE "returned",
                           !.err = ~exists]
    /\ UNCHANGED acLog
    /\ UNCHANGED nonAutoVars

\* terminalSession.ClearOutputBuffer()
AutoClear ==
    /\ ac.pc = "clear"
    /\ acLog' = Append(acLog, Did("ClearOutputBuffer", << >>))
    /\ ac' = [ac EXCEPT !.pc = "send"]
    /\ UNCHANGED nonAutoVars

\* one SendCommandWithoutNewline of text at position pc; its error is returned
AutoSend(pc, text, next) ==
    /\ ac.pc = pc
    /\ \E ok \in BOOLEAN :
          /\ acLog' = Append(acLog, Did("SendCommandWithoutNewline", text))
          /\ ac' = [ac EXCEPT !.pc = IF ok THEN next ELSE "returned", !.err = ~ok]
    /\ UNCHANGED nonAutoVars

\* SendCommandWithoutNewline(partialCommand)
AutoSendPartial == AutoSend("send", ac.partialCommand, "tabs")

\* SendCommandWithoutNewline("\t\t")
AutoSendTabs == AutoSend("tabs", << "TAB", "TAB" >>, "read")

\* the test that sends GetAutoCompleteSuggestions into its second attempt
NoValidOutput(output) == TrimSpace(output) = << >> \/ Len(TrimSpace(output)) < 2

\* a test on the candidates in the output in the place of NoValidOutput
NoCandidates(output) == Len(ParseAutoCompleteSuggestions(ac.partialCommand, output)) = 0

\* output := terminalSession.GetLastOutput() and the choice of a second attempt
AutoRead ==
    /\ ac.pc = "read"
    /\ \E o \in Outputs :
          /\ acLog' = Append(acLog, Did("GetLastOutput", o))
          /\ ac' = [ac EXCEPT !.output = o, !.first = o,
                              !.pc = IF NoValidOutput(o) THEN "retry_clear" ELSE "parse"]
    /\ UNCHANGED nonAutoVars

\* second attempt: terminalSession.ClearOutputBuffer()
AutoRetryClear ==
    /\ ac.pc = "retry_clear"
    /\ acLog' = Append(acLog, Did("ClearOutputBuffer", << >>))
    /\ ac' = [ac EXCEPT !.pc = "retry_send"]
    /\ UNCHANGED nonAutoVars

\* second attempt: SendCommandWithoutNewline(partialCommand)
AutoResend == AutoSend("retry_send", ac.partialCommand, "retry_tab")

\* second attempt: SendCommandWithoutNewline("\t")
AutoSendTab == AutoSend("retry_tab", << "TAB" >>, "reread")

\* second attempt: output = terminalSession.GetLastOutput()
AutoReread ==
    /\ ac.pc = "reread"
    /\ \E o \in Outputs :
          /\ acLog' = Append(acLog, Did("GetLastOutput", o))
          /\ ac' = [ac EXCEPT !.output = o, !.pc = "parse"]
    /\ UNCHANGED nonAutoVars

\* suggestions := ParseAutoCompleteSuggestions(partialCommand, output);
\* ClearOutputBuffer(); return suggestions, nil
AutoParse ==
    /\ ac.pc = "parse"
    /\ acLog' = acLog \o << Did("ParseAutoCompleteSuggestions", ac.output),
                            Did("ClearOutputBuffer", << >>) >>
    /\ ac' = [ac EXCEPT !.pc = "returned",
                        !.suggestions = ParseAutoCompleteSuggestions(ac.partialCommand, ac.output)]
    /\ UNCHANGED nonAutoVars

NextAuto ==
    \/ AutoCall
    \/ AutoClear
    \/ AutoSendPartial
    \/ AutoSendTabs
    \/ AutoRead
    \/ AutoRetryClear
    \/ AutoResend
    \/ AutoSendTab
    \/ AutoReread
    \/ AutoParse

SpecAuto == Init /\ [][NextAuto]_vars

\* the call has sent a lone Tab: it is in, or past, its second attempt
Retries ==
    Cardinality({i \in 1..Len(acLog) : acLog[i] = Did("SendCommandWithoutNewline", << "TAB" >>)})

\* the call has read the scrollback at least once
HasRead == \E i \in 1..Len(acLog) : acLog[i].op = "GetLastOutput"

\* C29: GetAutoCompleteSuggestions clears the scrollback, sends the partial
\* command, sends two Tabs and reads the scrollback, in this order; it sends
\* a single Tab, once, exactly when no candidate is found in what it read,
\* and never when candidates were found.
C29_RetriesWhenNoCandidates ==
    /\ Len(acLog) >= 4 =>
          /\ acLog[1].op = "ClearOutputBuffer"
          /\ acLog[2] = Did("SendCommandWithoutNewline", ac.partialCommand)
          /\ acLog[3] = Did("SendCommandWithoutNewline", << "TAB", "TAB" >>)
          /\ acLog[4].op = "GetLastOutput"
    /\ Retries <= 1
    /\ (ac.pc = "returned" /\ ~ac.err /\ HasRead) =>
          (Retries = 1 <=> NoCandidates(ac.first))

\* C29 with the test the code makes: the single Tab is sent, once, exactly
\* when what was read is blank or a single symbol
C29_RetriesWhenOutputBlank ==
    /\ Len(acLog) >= 4 =>
          /\ acLog[1].op = "ClearOutputBuffer"
          /\ acLog[2] = Did("SendCommandWithoutNewline", ac.partialCommand)
          /\ acLog[3] = Did("SendCommandWithoutNewline", << "TAB", "TAB" >>)
          /\ acLog[4].op = "GetLastOutput"
    /\ Retries <= 1
    /\ (ac.pc = "returned" /\ ~ac.err /\ HasRead) =>
          (Retries = 1 <=> NoValidOutput(ac.first))


\* ------------------------------------------------ properties of the readers
\* a call of ReadOutput / ReadTerminalOutput returns in this step
ReadReturns == got' # got

InitSessions ==
    /\ connections = [h \in Hosts |-> 0]
    /\ sftpClients = [h \in Hosts |-> 0]
    /\ terminalSessions = [h \in Hosts |-> 0]
    /\ perServerLocks = [h \in Hosts |-> 0]
    /\ lockOwner = [l \in LockIds |-> 0]
    /\ mutexReaders = {}
    /\ conn = [c \in ConnIds |-> [host |-> 0, client |-> "none", closes |-> 0,
                                probes |-> 0]]
    /\ sess = [s \in SessIds |-> [host |-> 0, state |-> "none"]]
    /\ sftp = [f \in SftpIds |-> [host |-> 0, state |-> "none"]]
    /\ task = [t \in Tasks |-> Blank]
    /\ calls = MaxCalls - MaxSessionCalls
    /\ InitClose /\ InitPump /\ InitBatch /\ InitExec /\ InitAuto

\* ConnectToServer, DisconnectFromServer, CreateTerminalSessionWithSize,
\* CloseTerminalSession and CreateTerminalSession, called by any task on any
\* host in any order
NextSessions ==
    \E t \in Tasks :
        \/ \E h \in Hosts : ConnectCheck(t, h)
        \/ ConnectDial(t)
        \/ ConnectPublish(t)
        \/ ConnectDiscard(t)
        \/ \E h \in Hosts : DisconnectSnapshot(t, h)
        \/ DisconnectCloseSession(t)
        \/ DisconnectCloseSftp(t)
        \/ DisconnectCloseConn(t)
        \/ DisconnectNilClient(t)
        \/ DisconnectRemove(t)
        \/ DisconnectRemoveLock(t)
        \/ \E h \in Hosts : OpenSessionRead(t, h)
        \/ OpenSessionActive(t)
        \/ OpenSessionDeleteDead(t)
        \/ OpenSessionGetLock(t)
        \/ OpenSessionLock(t)
        \/ OpenSessionCreate(t)
        \/ OpenSessionPublish(t)
        \/ OpenSessionDiscard(t)
        \/ \E h \in Hosts : CloseSessionGetLock(t, h)
        \/ CloseSessionLock(t)
        \/ CloseSessionRead(t)
        \/ CloseSessionClose(t)
        \/ CloseSessionRemove(t)
        \/ \E h \in Hosts : CreateSessionHealthRead(t, h)
        \/ CreateSessionProbe(t)
        \/ CreateSessionEvict(t)
        \/ CreateSessionReadSession(t)
        \/ CreateSessionReadConn(t)
        \/ CreateSessionCreate(t)
        \/ CreateSessionPublish(t)
        \/ CreateSessionDiscard(t)

SpecSessions == InitSessions /\ [][NextSessions]_vars

\* session s is in the hands of the task that created it, which has not yet
\* published it or closed it as the loser of the double-check
HeldByCreator(s) ==
    \E t \in Tasks : /\ task[t].sess = s
                     /\ task[t].pc \in {"s_publish", "s_discard", "n_publish", "n_discard"}

Registered(s) == \E h \in Hosts : terminalSessions[h] = s

\* C31: every session that was created is held by its creator before
\* publication, registered in the sessions map, or closed: no removal or
\* replacement of a registry entry leaves an unclosed session that the
\* registry no longer reaches.
C31_NoUnclosedUnregisteredSession ==
    \A s \in SessIds : sess[s].state = "open" => (HeldByCreator(s) \/ Registered(s))


\* the pump of stream s gives up the chunk in its hand in this step: it leaves
\* the push without having put the chunk in the queue and goes on to the
\* scrollback (the innermost default of readLoop)
Discards(s) ==
    /\ pump[s].pc = "drop"
    /\ pump'[s].pc = "append"
    /\ outQ'[s] = outQ[s]

\* C32: a pump discards a freshly read chunk only when the queue is full at
\* the moment of the discard; while the queue has free space the chunk is
\* enqueued, however the consumers interleave with the push.
C32_DiscardsOnlyWhenFull ==
    [][\A s \in Streams : Discards(s) => Len(outQ[s]) = Cap(s)]_vars

\* what the pump does instead: the chunk is discarded only when the queue,
\* found full by the first send, has been drained empty before the second
\* select
C32_DiscardsOnlyWhenDrained ==
    [][\A s \in Streams : Discards(s) => (outQ[s] = << >> /\ taken[s] # << >>)]_vars


\* the steps of CloseTerminalSession after serverLock.Lock()
CloseSessionPcs == {"x_read", "x_close", "x_remove"}

C34_SessionImpliesLiveConnection ==
    \A h \in Hosts :
        (terminalSessions[h] # 0 \/ sftpClients[h] # 0)
            => (/\ connections[h] # 0
                /\ conn[connections[h]].client = "open"
                /\ TransportOpen(connections[h]))


\* an entry is inserted into or deleted from one of the three resource maps
MapsChange ==
    \/ connections' # connections
    \/ terminalSessions' # terminalSessions
    \/ sftpClients' # sftpClients

\* C35: every insert into and delete from the connections, sessions and
\* sftp-clients maps is done with sc.mutex held in write mode: no task holds
\* the mutex in read mode (and so may be reading a map) while a map changes.
C35_MapWritesUnderExclusiveLock ==
    [][MapsChange => mutexReaders = {}]_vars

\* C36: when ConnectToServer(h) returns success, the connections map holds an
\* entry for h whose transport handle is open: an entry whose handle has been
\* closed or set to nil is not reported as an existing connection.
C36_ConnectSuccessMeansOpenEntry ==
    [][\A t \in Tasks :
          (Returns(t, "connect") /\ task'[t].res \in {"already", "connected"})
              => LET c == connections'[task'[t].arg] IN
                 /\ c # 0
                 /\ conn'[c].client = "open"
                 /\ conn'[c].closes = 0]_vars


\* ======================================================== the registry's locks
\* every step of DisconnectFromServer, its three closes included
DisconnectStep(t) ==
    \/ DisconnectCloseSession(t) \/ DisconnectCloseSftp(t) \/ DisconnectCloseConn(t)
    \/ DisconnectNilClient(t) \/ DisconnectRemove(t) \/ DisconnectRemoveLock(t)

\* the controller as a run under a fair scheduler finds it: new, or with
\* host 1 connected by an earlier ConnectToServer that has returned
InitLocks ==
    /\ \E c0 \in {0, 1} :
         /\ connections = [h \in Hosts |-> IF h = 1 THEN c0 ELSE 0]
         /\ conn = [c \in ConnIds |->
                      IF c = c0
                      THEN [host |-> 1, client |-> "open", closes |-> 0, probes |-> 0]
                      ELSE [host |-> 0, client |-> "none", closes |-> 0, probes |-> 0]]
    /\ sftpClients = [h \in Hosts |-> 0]
    /\ terminalSessions = [h \in Hosts |-> 0]
    /\ perServerLocks = [h \in Hosts |-> 0]
    /\ lockOwner = [l \in LockIds |-> 0]
    /\ mutexReaders = {}
    /\ sess = [s \in SessIds |-> [host |-> 0, state |-> "none"]]
    /\ sftp = [f \in SftpIds |-> [host |-> 0, state |-> "none"]]
    /\ task = [t \in Tasks |-> Blank]
    /\ calls = MaxCalls - MaxLockCalls
    /\ InitClose /\ InitPump /\ InitBatch /\ InitExec /\ InitAuto

\* The registry with a scheduler that runs every goroutine that can run and a
\* transport on which every call returns or times out
SpecLocks ==
    /\ InitLocks
    /\ [][Next]_vars
    /\ \A t \in Tasks : WF_vars(DisconnectStep(t))
    /\ \A t \in Tasks : WF_vars(OtherMethodStep(t))

\* task u is inside a method and cannot take its next step
Waits(u) ==
    /\ task[u].pc # "idle"
    /\ ~ENABLED (DisconnectStep(u) \/ OtherMethodStep(u))

\* C37: no interleaving of registry operations leaves tasks waiting for ever on
\* sc.mutex, sc.locksMutex or a per-host lock.  A task that cannot take its
\* next step waits for a lock held by a task that can take its own (so no
\* two tasks wait for each other), a lock is held only by a task inside a
\* method, and every call returns: once the run's calls have been made, all
\* tasks come to rest.
C37_NoLockDeadlock ==
    /\ [](\A u \in Tasks : Waits(u) =>
            \E t \in Tasks \ {u} : BlockedBy(u, t) /\ ~Waits(t) /\ task[t].pc # "idle")
    /\ [](\A l \in LockIds : lockOwner[l] # 0 => task[lockOwner[l]].pc # "idle")
    /\ [](\A t \in mutexReaders : task[t].pc \in {"st_iter", "st_probe"})
    /\ <>[](\A t \in Tasks : task[t].pc = "idle")

\* a task waits for the per-host lock of its host while the holder is in a
\* transport call
C37_Witness ==
    \E u \in Tasks : \E t \in Tasks \ {u} :
        /\ Waits(u) /\ BlockedBy(u, t)
        /\ task[u].pc \in {"s_lock", "f_lock", "x_lock"}
        /\ task[t].pc \in TransportIOPcs


\* ===================================================== Close and the pumps
\* the steps of readLoop that need nothing from the transport
PumpLocalStep(s) ==
    \/ PumpSelect(s) \/ PumpPush(s) \/ PumpDrop(s) \/ PumpResend(s) \/ PumpAppend(s)

\* the caller of Close in a run of one session with its pumps
Caller == 1

\* one call of TerminalSession.Close and the two readLoop goroutines
NextStop ==
    \/ CloseEnter(Caller)
    \/ CloseSignal(Caller)
    \/ CloseSpawn(Caller)
    \/ CloseWait(Caller)
    \/ StdinCloseReturns
    \/ SessionCloseReturns
    \/ CtxExpires
    \/ \E s \in Streams :
        \/ PumpSelect(s)
        \/ PumpRead(s)
        \/ PumpPush(s)
        \/ PumpDrop(s)
        \/ PumpResend(s)
        \/ PumpAppend(s)

\* The runtime schedules every goroutine that can run and the context's timer
\* fires.  r.Read(buf) returns when the remote side sends bytes or when the
\* session handle has been closed (the pipe reports io.EOF); the remote side
\* need not send anything, and Session.Close() need not return.
SpecStop ==
    /\ Init
    /\ [][NextStop]_vars
    /\ WF_vars(CtxExpires)
    /\ WF_vars(CloseStep(Caller))
    /\ \A s \in Streams : WF_vars(PumpLocalStep(s))
    /\ \A s \in Streams : WF_vars(sessionClose = "done" /\ PumpRead(s))

PumpsDone == \A s \in Streams : pump[s].pc = "done"

\* C38: once Close has signalled shutdown, both pumps eventually terminate,
\* also when closing the session handle timed out and when a pump was in a
\* read or in the middle of a push as the signal was raised.
C38_PumpsStopAfterSignal == closeChan ~> PumpsDone

\* what the code ensures: the pumps terminate once the signal has been raised
\* and the session handle has in fact been closed
C38_PumpsStopOnceSessionClosed == (closeChan /\ sessionClose = "done") ~> PumpsDone


\* isConnectionHealthy returns in this step of task t (to its caller
\* CreateTerminalSession, with true or false)
HealthCheckReturns(t) ==
    /\ task[t].pc = "n_probe"
    /\ task'[t].pc # "n_probe"

\* C39: a liveness check by isConnectionHealthy leaves the number of open
\* channels on the host's connection unchanged: a channel it opens as a probe
\* is closed before it returns.
C39_HealthCheckLeavesNoChannel ==
    [][\A t \in Tasks : HealthCheckReturns(t) =>
          conn'[task[t].conn].probes = conn[task[t].conn].probes]_vars



\* ================================================ the records of a batch run
\* C40: in the map ExecuteBatchScript returns, a host's record has status
\* failed exactly when its executor returned an error or one of its
\* CommandOutputs has status failed, and status success otherwise; a record
\* with status failed has a non-empty error text.
C40_FailedIffErrorOrFailedCommand ==
    BatchReturned =>
        \A h \in Targets :
            LET r == results[h]
                failure == \/ worker[h].execErr
                           \/ \E i \in 1..Len(r.outs) : r.outs[i] = "failed" IN
            /\ r.status = (IF failure THEN "failed" ELSE "success")
            /\ r.status = "failed" => r.error # ""

\* the map holds a record failed by a failed command alone (a script-mode run
\* whose executor returned no error), with that command's error text, next to
\* a success
C40_Witness ==
    /\ BatchReturned
    /\ \E h \in Targets : /\ ~worker[h].execErr
                          /\ results[h].outs = << "failed" >>
                          /\ results[h].status = "failed"
                          /\ results[h].error = FailedText.Error
    /\ \E h \in Targets : results[h].status = "success" /\ results[h].error = ""

====
